---- MODULE Spec2Model ----
(***************************************************************************)
(* Entitlement-state resolution and trust caching of the JavaScript SDK:   *)
(* EntitlementState, StateResolver, StateStore, CacheManager and the       *)
(* orchestration in LicenseValidator.resolveLicenseState.                  *)
(*                                                                         *)
(* Time is counted in ticks; one day has TicksPerDay ticks.  An optional   *)
(* JavaScript value (null / undefined / a value) is a sequence of length   *)
(* zero or one.  A signature is <<signer, data>>: the party that produced  *)
(* it and the serialization it was computed over, so that verification is  *)
(* decided by what was signed.                                             *)
(***************************************************************************)
EXTENDS Integers, Sequences, FiniteSets, TLC

\* ------------------------------------------------------------------ bounds
TicksPerDay == 1
MaxTime == 4

\* --------------------------------------------------------- time constants
Day == TicksPerDay
\* needsRevalidation(revalidationInterval = 86400)
RevalidationInterval == Day
\* graceWindow = 72 * 3600
GraceWindow == 3 * Day
\* gracePeriod = 7 * 86400
GracePeriod == 7 * Day

\* ----------------------------------------------------------------- inputs
LicenseKeys == {"L1"}
\* arguments rejected by _validateLicenseKey: '', null, non-strings, blanks
BadLicenseKeys == {""}
\* config.cacheTtl, in ticks
TtlChoices == {1, MaxTime - 1}

None == <<>>
Some(v) == <<v>>

\* JavaScript truthiness of an optional number: null, undefined and 0 are falsy
Truthy(x) == x # None /\ x[1] # 0

\* x || null
OrNull(x) == IF Truthy(x) THEN x ELSE None

STATE_ACTIVE == "ACTIVE"
STATE_GRACE == "GRACE"
STATE_RESTRICTED == "RESTRICTED"
STATE_INVALID == "INVALID"

\* String.prototype.toLowerCase on the status strings that occur
Lower(s) ==
    CASE s = "REVOKED" -> "revoked"
      [] s = "Suspended" -> "suspended"
      [] OTHER -> s

\* ------------------------------------------------------- EntitlementState
\* A payload is a record
\*   status              "" when absent or null
\*   valid               "true" | "false" | "undef"
\*   valid_from, valid_until, last_verified_at    optional ticks
\*   revalidation_failed BOOLEAN (TRUE only when the field is === true)
\*   license_status      payload.license.status, "" when absent
\*   features_telemetry  "true" | "false" | "undef"
\*   features_updates, license_features_updates
\*                       payload.features.updates and
\*                       payload.license.features.updates, "undef" when absent
\*   metadata            payload.metadata.reason, "" when there is none
\* the validity window is examined before the status
determineState_windowFirst(payload, t) ==
    IF Truthy(payload.valid_from) /\ t < payload.valid_from[1]
    THEN STATE_RESTRICTED
    ELSE IF Truthy(payload.valid_until) /\ t > payload.valid_until[1]
    THEN IF (t - payload.valid_until[1]) < GracePeriod
         THEN STATE_GRACE
         ELSE STATE_RESTRICTED
    ELSE IF payload.status # ""
          /\ Lower(payload.status) \in {"revoked", "suspended", "cancelled"}
    THEN STATE_INVALID
    ELSE IF payload.valid = "true"
    THEN STATE_ACTIVE
    ELSE IF payload.revalidation_failed
            /\ (t - (IF Truthy(payload.last_verified_at)
                     THEN payload.last_verified_at[1] ELSE 0)) < GraceWindow
    THEN STATE_GRACE
    ELSE STATE_ACTIVE

\* the grace period includes its last instant
determineState_inclusiveGrace(payload, t) ==
    IF payload.status # ""
          /\ Lower(payload.status) \in {"revoked", "suspended", "cancelled"}
    THEN STATE_INVALID
    ELSE IF Truthy(payload.valid_from) /\ t < payload.valid_from[1]
    THEN STATE_RESTRICTED
    ELSE IF Truthy(payload.valid_until) /\ t > payload.valid_until[1]
    THEN IF (t - payload.valid_until[1]) <= GracePeriod
         THEN STATE_GRACE
         ELSE STATE_RESTRICTED
    ELSE IF payload.valid = "true"
    THEN STATE_ACTIVE
    ELSE IF payload.revalidation_failed
            /\ (t - (IF Truthy(payload.last_verified_at)
                     THEN payload.last_verified_at[1] ELSE 0)) < GraceWindow
    THEN STATE_GRACE
    ELSE STATE_ACTIVE

\* valid === true is examined before the validity window
determineState_validFirst(payload, t) ==
    IF payload.status # ""
          /\ Lower(payload.status) \in {"revoked", "suspended", "cancelled"}
    THEN STATE_INVALID
    ELSE IF payload.valid = "true"
    THEN STATE_ACTIVE
    ELSE IF Truthy(payload.valid_from) /\ t < payload.valid_from[1]
    THEN STATE_RESTRICTED
    ELSE IF Truthy(payload.valid_until) /\ t > payload.valid_until[1]
    THEN IF (t - payload.valid_until[1]) < GracePeriod
         THEN STATE_GRACE
         ELSE STATE_RESTRICTED
    ELSE IF payload.revalidation_failed
            /\ (t - (IF Truthy(payload.last_verified_at)
                     THEN payload.last_verified_at[1] ELSE 0)) < GraceWindow
    THEN STATE_GRACE
    ELSE STATE_ACTIVE

\* EntitlementState.determineState(payload) at time t
determineState(payload, t) ==
    IF payload.status # ""
          /\ Lower(payload.status) \in {"revoked", "suspended", "cancelled"}
    THEN STATE_INVALID
    ELSE IF Truthy(payload.valid_from) /\ t < payload.valid_from[1]
    THEN STATE_RESTRICTED
    ELSE IF Truthy(payload.valid_until) /\ t > payload.valid_until[1]
    THEN IF (t - payload.valid_until[1]) < GracePeriod
         THEN STATE_GRACE
         ELSE STATE_RESTRICTED
    ELSE IF payload.valid = "true"
    THEN STATE_ACTIVE
    ELSE IF payload.revalidation_failed
            /\ (t - (IF Truthy(payload.last_verified_at)
                     THEN payload.last_verified_at[1] ELSE 0)) < GraceWindow
    THEN STATE_GRACE
    ELSE STATE_ACTIVE

determineUpdateCapability(payload) ==
    IF payload.valid = "false" THEN FALSE
    ELSE IF payload.license_status # ""
            /\ Lower(payload.license_status) \in {"revoked", "suspended"}
    THEN FALSE
    ELSE TRUE

determineTelemetryCapability(payload) ==
    IF payload.features_telemetry # "undef"
    THEN payload.features_telemetry = "true"
    ELSE TRUE

determineDownloadCapability(payload) ==
    IF payload.license_status # ""
    THEN Lower(payload.license_status) \in {"active", "assigned", "available"}
    ELSE payload.valid = "true"

\* the entries that Object.assign copies from features, then license.features
suppliedCapabilities(payload) ==
    [updates |-> IF payload.license_features_updates # "undef"
                 THEN payload.license_features_updates
                 ELSE payload.features_updates]

\* the standard capabilities are assigned after the supplied ones
extractCapabilities(payload) ==
    LET supplied == suppliedCapabilities(payload)
        standard == [updates   |-> determineUpdateCapability(payload),
                     telemetry |-> determineTelemetryCapability(payload),
                     downloads |-> determineDownloadCapability(payload)]
    IN  [k \in DOMAIN supplied \cup DOMAIN standard |->
            IF k \in DOMAIN standard THEN standard[k] ELSE supplied[k]]

\* new EntitlementState(payload, signature) at time t
EntitlementState(payload, signature, t) ==
    [state          |-> determineState(payload, t),
     capabilities   |-> extractCapabilities(payload),
     validFrom      |-> OrNull(payload.valid_from),
     validUntil     |-> OrNull(payload.valid_until),
     metadata       |-> payload.metadata,
     signature      |-> signature,
     lastVerifiedAt |-> t]

allowsOperation(s) == s.state \in {STATE_ACTIVE, STATE_GRACE}

\* this.capabilities[capability] === true
hasCapability(s, capability) ==
    /\ capability \in DOMAIN s.capabilities
    /\ s.capabilities[capability] = TRUE

needsRevalidation(s, t) == (t - s.lastVerifiedAt) > RevalidationInterval

toObject(s) ==
    [state            |-> s.state,
     capabilities     |-> s.capabilities,
     valid_from       |-> s.validFrom,
     valid_until      |-> s.validUntil,
     metadata         |-> s.metadata,
     signature        |-> s.signature,
     last_verified_at |-> Some(s.lastVerifiedAt)]

\* { ...obj }; delete copy.signature
WithoutSignature(obj) == [f \in (DOMAIN obj) \ {"signature"} |-> obj[f]]

\* An object whose key order matters carries it in the field keys: the names
\* of its members other than signature, in insertion order.
\* JSON.stringify(obj): the members in insertion order
JSONstringify(obj) ==
    [i \in 1..Len(obj.keys) |-> <<obj.keys[i], obj[obj.keys[i]]>>]

\* JSON.stringify of a serialized state: toObject builds it with one object
\* literal, so its key order is fixed and the text is determined by the value
stringifyState(obj) == << <<"state", obj>> >>

\* the order of Array.prototype.sort on the key names that occur
KeyRank(k) ==
    CASE k = "__proto__" -> 1
      [] k = "a"         -> 2
      [] k = "data"      -> 3
      [] k = "license"   -> 4
      [] k = "valid"     -> 5
      [] k = "z"         -> 6

\* Object.keys(data).sort()
SortedKeys(keys) ==
    CHOOSE q \in [1..Len(keys) -> {keys[i] : i \in 1..Len(keys)}] :
       /\ {q[i] : i \in 1..Len(q)} = {keys[i] : i \in 1..Len(keys)}
       /\ \A i \in 1..(Len(q) - 1) : KeyRank(q[i]) < KeyRank(q[i + 1])

\* SignatureVerifier.sortKeysRecursive(data)
RECURSIVE sortKeysRecursive(_)
sortKeysRecursive(obj) ==
    [obj EXCEPT !.keys = SortedKeys(@),
                !.data = IF @ # None THEN Some(sortKeysRecursive(@[1])) ELSE @]

\* SignatureVerifier.canonicalizeJson(data)
canonicalizeJson(obj) == JSONstringify(sortKeysRecursive(obj))

\* SignatureVerifier.verify(data, signature) for a non-empty signature:
\* true exactly when the holder of the configured key signed this data
verify(data, signature) == signature[1] = "server" /\ signature[2] = data

\* The serialized state read back as a constructor payload: it has none of
\* the fields status, valid, revalidation_failed, license or features
CachedAsPayload(obj) ==
    [status              |-> "",
     valid               |-> "undef",
     valid_from          |-> obj.valid_from,
     valid_until         |-> obj.valid_until,
     revalidation_failed |-> FALSE,
     last_verified_at    |-> obj.last_verified_at,
     license_status      |-> "",
     features_telemetry  |-> "undef",
     features_updates    |-> "undef",
     license_features_updates |-> "undef",
     metadata            |-> obj.metadata]

\* outcome of a call: a returned value or a thrown error
Return(v) == [kind |-> "return", value |-> Some(v), error |-> ""]
ReturnNull == [kind |-> "null", value |-> None, error |-> ""]
Throw(e) == [kind |-> "throw", value |-> None, error |-> e]
\* no outcome yet
NoResult == [kind |-> "none", value |-> None, error |-> ""]

\* EntitlementState.fromCache(cachedData, verifier) at time t.  The module
\* does not import SignatureError, so both throw statements raise a
\* ReferenceError.
fromCache(cachedData, verifier, t) ==
    IF cachedData.signature = None
    THEN Throw("ReferenceError")
    ELSE IF verifier
            /\ ~verify(stringifyState(WithoutSignature(cachedData)),
                       cachedData.signature)
    THEN Throw("ReferenceError")
    ELSE Return(EntitlementState(CachedAsPayload(cachedData),
                                 cachedData.signature, t))

\* ------------------------------------------------------------- exceptions
\* The error values of the model.  "Validation", "Network", "Signature",
\* "State" and "License" are the classes of the exceptions module (all of
\* them extend the base class); the validator and the HTTP client refer to
\* them as ValidationException, NetworkException, ... and the resolver and
\* the store as ValidationError, NetworkError, ...  "ReferenceError" and
\* "TypeError" are the built-in errors of the runtime.
LicenseExceptionKinds == {"Validation", "Network", "Signature", "State", "License"}

\* e instanceof cls
instanceOf(e, cls) ==
    CASE cls = "LicenseException"   -> e \in LicenseExceptionKinds
      [] cls = "NetworkException"   -> e = "Network"
      [] cls = "SignatureException" -> e = "Signature"
      [] OTHER -> FALSE

\* ------------------------------------------------------------- StateStore
getValidationKey(licenseKey) == <<"entitlement", licenseKey, "validation">>

StoreKeys == {getValidationKey(k) : k \in LicenseKeys}

\* set that leaves an entry already present in place
StateStoreSet_keepExisting(st, key, s, ttl, defaultTtl, t) ==
    IF st[key] # None
    THEN st
    ELSE [st EXCEPT ![key] =
            Some([state     |-> toObject(s),
                  expiresAt |-> t + (IF Truthy(ttl) THEN ttl[1] ELSE defaultTtl)])]

\* StateStore.set(key, state, ttl) at time t; ttl = ttl || this.defaultTtl
StateStoreSet(st, key, s, ttl, defaultTtl, t) ==
    [st EXCEPT ![key] =
        Some([state     |-> toObject(s),
              expiresAt |-> t + (IF Truthy(ttl) THEN ttl[1] ELSE defaultTtl)])]

\* get that removes the entry it returns
StateStoreGet_evictOnHit(st, key, verifier, t) ==
    IF st[key] = None
    THEN [store |-> st, ret |-> ReturnNull]
    ELSE LET cached == st[key][1] IN
         IF cached.expiresAt < t
         THEN [store |-> [st EXCEPT ![key] = None], ret |-> ReturnNull]
         ELSE [store |-> [st EXCEPT ![key] = None],
               ret |-> fromCache(cached.state, verifier, t)]

\* get without the TTL check
StateStoreGet_ignoreTtl(st, key, verifier, t) ==
    IF st[key] = None
    THEN [store |-> st, ret |-> ReturnNull]
    ELSE LET r == fromCache(st[key][1].state, verifier, t) IN
         IF r.kind = "throw"
         THEN [store |-> [st EXCEPT ![key] = None], ret |-> r]
         ELSE [store |-> st, ret |-> r]

\* StateStore.get(key) at time t: the store afterwards and the outcome
StateStoreGet(st, key, verifier, t) ==
    IF st[key] = None
    THEN [store |-> st, ret |-> ReturnNull]
    ELSE LET cached == st[key][1] IN
         IF cached.expiresAt < t
         THEN [store |-> [st EXCEPT ![key] = None], ret |-> ReturnNull]
         ELSE LET r == fromCache(cached.state, verifier, t) IN
              IF r.kind = "throw"
              THEN [store |-> [st EXCEPT ![key] = None], ret |-> r]
              ELSE [store |-> st, ret |-> r]

\* StateStore.getStats().total
StatsTotal(st) == Cardinality({k \in DOMAIN st : st[k] # None})

\* ----------------------------------------------------------- CacheManager
generateKey(licenseKey) == <<"license", licenseKey, "validation">>

CacheKeys == {generateKey(k) : k \in LicenseKeys}

\* CacheManager.get(key) at time t: the cache afterwards and the value
CacheManagerGet(ca, key, enabled, t) ==
    IF ~enabled \/ ca[key] = None
    THEN [cache |-> ca, ret |-> None]
    ELSE IF ca[key][1].expiresAt < t
    THEN [cache |-> [ca EXCEPT ![key] = None], ret |-> None]
    ELSE [cache |-> ca, ret |-> Some(ca[key][1].data)]

\* CacheManager.set(key, data) at time t with the configured ttl
CacheManagerSet(ca, key, data, enabled, ttl, t) ==
    IF ~enabled
    THEN ca
    ELSE [ca EXCEPT ![key] = Some([data |-> data, expiresAt |-> t + ttl])]

\* ---------------------------------------------------------- StateResolver
\* A response is a record
\*   data       optional nested response ({data: {valid, license}})
\*   valid      "true" | "false" | "undef"
\*   license    optional [status, expires_at, activated_at]
\*   signature  optional signature
\*   keys       insertion order of the members present
normalizeValidationPayload(response) ==
    LET src == IF response.data # None THEN response.data[1] ELSE response
        lic == src.license
    IN  [status              |-> IF lic # None THEN lic[1].status ELSE "",
         valid               |-> IF src.valid = "true" THEN "true" ELSE "false",
         valid_from          |-> IF response.data # None /\ lic # None
                                    /\ Truthy(lic[1].activated_at)
                                 THEN lic[1].activated_at ELSE None,
         valid_until         |-> IF lic # None /\ Truthy(lic[1].expires_at)
                                 THEN lic[1].expires_at ELSE None,
         revalidation_failed |-> FALSE,
         last_verified_at    |-> None,
         license_status      |-> "",
         features_telemetry  |-> "undef",
         features_updates    |-> "undef",
         license_features_updates |-> "undef",
         metadata            |-> ""]

\* verification that accepts every signature
verifySignature_accepting(response, signature, verifier) == ReturnNull

\* StateResolver.verifySignature(response, signature)
verifySignature(response, signature, verifier) ==
    IF ~verifier
    THEN ReturnNull
    ELSE IF ~verify(JSONstringify(WithoutSignature(response)), signature)
    THEN Throw("Signature")
    ELSE ReturnNull

\* StateResolver.resolveFromValidation(response) at time t: the
\* EntitlementState wrapped by the returned LicenseState, or the error
resolveFromValidation(response, verifier, t) ==
    LET checked   == response.signature # None /\ verifier
        signature == IF checked THEN response.signature ELSE None
        vs        == IF checked
                     THEN verifySignature(response, signature, verifier)
                     ELSE ReturnNull
    IN  IF vs.kind = "throw"
        THEN vs
        ELSE Return(EntitlementState(normalizeValidationPayload(response),
                                     signature, t))

\* StateResolver.createGraceState(lastValidState) at time t
createGraceState(lastValidState, t) ==
    LET payload == [CachedAsPayload(lastValidState) EXCEPT
                       !.revalidation_failed = TRUE,
                       !.last_verified_at =
                            IF Truthy(lastValidState.last_verified_at)
                            THEN lastValidState.last_verified_at
                            ELSE Some(t)]
    IN  EntitlementState(payload, lastValidState.signature, t)

\* StateResolver.createRestrictedState(reason) at time t: the payload is
\* { valid: false, status: 'restricted', metadata: { reason } } and the
\* state is built without a signature
createRestrictedState(reason, t) ==
    EntitlementState([status              |-> "restricted",
                      valid               |-> "false",
                      valid_from          |-> None,
                      valid_until         |-> None,
                      revalidation_failed |-> FALSE,
                      last_verified_at    |-> None,
                      license_status      |-> "",
                      features_telemetry  |-> "undef",
                      features_updates    |-> "undef",
                      license_features_updates |-> "undef",
                      metadata            |-> reason],
                     None, t)

\* ------------------------------------------------------------- HttpClient
\* request that hands every 2xx body over without verifying it
HttpClientRequest_unverified(outcome, verifier) ==
    CASE outcome.kind = "network_fail" -> Throw("Network")
      [] outcome.kind = "app_error"    -> Throw("License")
      [] OTHER ->
            LET body == outcome.body[1] IN
            Return(IF body.data # None THEN body.data[1] ELSE body)

\* HttpClient.request for the final outcome of its attempts: a transport
\* fault that outlasted the retries, an application-level rejection, or a
\* 2xx body, which is verified when it carries a signature and then
\* unwrapped (response.data.data || response.data)
HttpClientRequest(outcome, verifier) ==
    CASE outcome.kind = "network_fail" -> Throw("Network")
      [] outcome.kind = "app_error"    -> Throw("License")
      [] OTHER ->
            LET body == outcome.body[1] IN
            IF verifier /\ body.signature # None
                 /\ ~verify(JSONstringify(WithoutSignature(body)),
                            body.signature)
            THEN Throw("Signature")
            ELSE Return(IF body.data # None THEN body.data[1] ELSE body)

\* Configuration.MAX_RETRY_ATTEMPTS and RETRY_DELAY_MS, the defaults of
\* retryAttempts and retryDelay (milliseconds)
MAX_RETRY_ATTEMPTS == 3
RETRY_DELAY_MS == 1000

\* What one _makeHttpRequest settles with: a rejection with a
\* NetworkException (connection error, timeout, unparsable body), or a
\* response with a status code and a parsed body.  retry_after is the member
\* of a 429 body, format the shape of an error body ("standard" has
\* response.code, "legacy" has error, "generic" has neither).
Fault ==
    [kind |-> "fault", status |-> 0, retry_after |-> None, format |-> "",
     body |-> None]
RateLimited(retryAfter) ==
    [kind |-> "response", status |-> 429, retry_after |-> retryAfter,
     format |-> "", body |-> None]
Ok(b) ==
    [kind |-> "response", status |-> 200, retry_after |-> None,
     format |-> "", body |-> Some(b)]
Rejected(status, format) ==
    [kind |-> "response", status |-> status, retry_after |-> None,
     format |-> format, body |-> None]

\* _handleErrorResponse(httpCode, responseData) of a client that was given a
\* StateResolver, as LicenseClient builds it: for the standard structure it
\* calls stateResolver.throwExceptionForResponse, which StateResolver does
\* not define
handleErrorResponse(status, format) ==
    IF format = "standard" THEN Throw("TypeError") ELSE Throw("License")

\* the loop of request before its first pass
LoopStart == [attempt |-> 0, lastException |-> None]

\* while (attempt < retryAttempts)
loopContinues(lp, cfg) == lp.attempt < cfg.retryAttempts

\* throw lastException || new NetworkException(...)
loopExhausted(lp) == Throw("Network")

\* a pass that does not count a 429 response as an attempt
requestAttempt_free429(lp, o, cfg) ==
    IF o.kind = "fault"
    THEN [loop |-> [attempt |-> lp.attempt + 1,
                    lastException |-> Some("Network")],
          wait |-> IF lp.attempt + 1 < cfg.retryAttempts
                   THEN Some(cfg.retryDelay * (lp.attempt + 1)) ELSE None,
          out  |-> NoResult]
    ELSE IF o.status = 429
    THEN [loop |-> lp,
          wait |-> Some(IF Truthy(o.retry_after)
                        THEN o.retry_after[1] * 1000
                        ELSE cfg.retryDelay),
          out  |-> NoResult]
    ELSE IF o.status >= 200 /\ o.status < 300
    THEN [loop |-> lp, wait |-> None,
          out  |-> HttpClientRequest([kind |-> "body", body |-> o.body],
                                     cfg.verifier)]
    ELSE [loop |-> lp, wait |-> None,
          out  |-> handleErrorResponse(o.status, o.format)]

\* One pass of the loop of request, in which _makeHttpRequest settles with
\* o: the loop variables afterwards, the sleep that ends the pass (if any)
\* and the outcome of request when the pass leaves it.  An error thrown in
\* the try block is caught; only a NetworkException is counted and slept on,
\* the others are rethrown.  (retry_after || retryDelay / 1000) * 1000 is
\* retry_after seconds, or retryDelay.
requestAttempt(lp, o, cfg) ==
    IF o.kind = "fault"
    THEN [loop |-> [attempt |-> lp.attempt + 1,
                    lastException |-> Some("Network")],
          wait |-> IF lp.attempt + 1 < cfg.retryAttempts
                   THEN Some(cfg.retryDelay * (lp.attempt + 1)) ELSE None,
          out  |-> NoResult]
    ELSE IF o.status = 429
    THEN [loop |-> [lp EXCEPT !.attempt = lp.attempt + 1],
          wait |-> Some(IF Truthy(o.retry_after)
                        THEN o.retry_after[1] * 1000
                        ELSE cfg.retryDelay),
          out  |-> NoResult]
    ELSE IF o.status >= 200 /\ o.status < 300
    THEN [loop |-> lp, wait |-> None,
          out  |-> HttpClientRequest([kind |-> "body", body |-> o.body],
                                     cfg.verifier)]
    ELSE [loop |-> lp, wait |-> None,
          out  |-> handleErrorResponse(o.status, o.format)]

\* ------------------------------------------------------- LicenseValidator
\* toArray as a method that serializes the state like toObject
toArray_defined(s) == Return(toObject(s))

\* cachedState.toArray(): EntitlementState defines toObject and no toArray,
\* so the call raises a TypeError
toArray(s) == Throw("TypeError")

\* the catch block rethrows whatever is not a SignatureException
readCachedState_rethrow(st, stateKey, cfg, t) ==
    IF ~cfg.cacheEnabled
    THEN [store |-> st, read |-> "disabled", out |-> ReturnNull]
    ELSE LET r == StateStoreGet(st, stateKey, cfg.verifier, t) IN
         IF r.ret.kind = "return" /\ ~needsRevalidation(r.ret.value[1], t)
         THEN [store |-> r.store, read |-> r.ret.kind, out |-> r.ret]
         ELSE IF r.ret.kind = "throw"
                 /\ ~instanceOf(r.ret.error, "SignatureException")
         THEN [store |-> r.store, read |-> r.ret.kind, out |-> r.ret]
         ELSE [store |-> r.store, read |-> r.ret.kind, out |-> ReturnNull]

\* resolveLicenseState, the read of the StateStore that opens the call: the
\* store afterwards, the outcome of StateStore.get ("disabled" when caching
\* is off) and what the call does next: return a state, or go on to validate
\* (ReturnNull).  The catch block has no statement that rethrows.
readCachedState(st, stateKey, cfg, t) ==
    IF ~cfg.cacheEnabled
    THEN [store |-> st, read |-> "disabled", out |-> ReturnNull]
    ELSE LET r == StateStoreGet(st, stateKey, cfg.verifier, t) IN
         IF r.ret.kind = "return" /\ ~needsRevalidation(r.ret.value[1], t)
         THEN [store |-> r.store, read |-> r.ret.kind, out |-> r.ret]
         ELSE [store |-> r.store, read |-> r.ret.kind, out |-> ReturnNull]

\* the fallback takes the stored object as it is, without StateStore.get
onValidationError_unverified(st, stateKey, e, cfg, t) ==
    IF instanceOf(e, "NetworkException") /\ st[stateKey] # None
    THEN [store |-> st, stored |-> FALSE,
          result |-> Return(createGraceState(st[stateKey][1].state, t))]
    ELSE [store |-> st, stored |-> FALSE, result |-> Throw(e)]

\* the error of the fallback read replaces the error of the validation
onValidationError_throwInner(st, stateKey, e, cfg, t) ==
    IF instanceOf(e, "NetworkException")
    THEN LET r == StateStoreGet(st, stateKey, cfg.verifier, t) IN
         IF r.ret.kind = "throw"
         THEN [store |-> r.store, stored |-> FALSE, result |-> r.ret]
         ELSE [store |-> r.store, stored |-> FALSE, result |-> Throw(e)]
    ELSE [store |-> st, stored |-> FALSE, result |-> Throw(e)]

\* the fallback persists the restricted state of the failure
onValidationError_persisting(st, stateKey, e, cfg, t) ==
    IF instanceOf(e, "NetworkException")
    THEN [store  |-> StateStoreSet(st, stateKey, createRestrictedState(e, t),
                                   None, cfg.cacheTtl, t),
          stored |-> FALSE, result |-> Throw(e)]
    ELSE [store |-> st, stored |-> FALSE, result |-> Throw(e)]

\* resolveLicenseState, the catch block around the validation: e is the
\* error thrown by validateLicense, resolveFromValidation or StateStore.set
onValidationError(st, stateKey, e, cfg, t) ==
    IF instanceOf(e, "NetworkException")
    THEN LET r == StateStoreGet(st, stateKey, cfg.verifier, t) IN
         IF r.ret.kind = "return" /\ allowsOperation(r.ret.value[1])
         THEN LET arr == toArray(r.ret.value[1]) IN
              IF arr.kind = "throw"
              THEN [store |-> r.store, stored |-> FALSE, result |-> Throw(e)]
              ELSE [store |-> r.store, stored |-> FALSE,
                    result |-> Return(createGraceState(arr.value[1], t))]
         ELSE [store |-> r.store, stored |-> FALSE, result |-> Throw(e)]
    ELSE [store |-> st, stored |-> FALSE, result |-> Throw(e)]

\* resolveLicenseState after the await: vr is the outcome of validateLicense.
\* The store afterwards, whether StateStore.set ran, and the outcome of the
\* call (the EntitlementState inside the returned LicenseState, or the error)
afterValidate(st, stateKey, vr, cfg, t) ==
    IF vr.kind = "throw"
    THEN onValidationError(st, stateKey, vr.error, cfg, t)
    ELSE LET rs == resolveFromValidation(vr.value[1], cfg.verifier, t) IN
         IF rs.kind = "throw"
         THEN onValidationError(st, stateKey, rs.error, cfg, t)
         ELSE [store  |-> IF cfg.cacheEnabled
                          THEN StateStoreSet(st, stateKey, rs.value[1], None,
                                             cfg.cacheTtl, t)
                          ELSE st,
               stored |-> cfg.cacheEnabled,
               result |-> rs]

\* A license key argument is any value: type is its typeof ("null" for
\* null), chars the characters of a string or the digits of a number.
NullKey      == [type |-> "null",   chars |-> <<>>]
StringKey(c) == [type |-> "string", chars |-> c]
NumberKey(c) == [type |-> "number", chars |-> c]

\* !licenseKey is false for a non-empty string and a non-zero number
keyTruthy(k) ==
    CASE k.type = "null"   -> FALSE
      [] k.type = "string" -> k.chars # <<>>
      [] k.type = "number" -> k.chars # <<"0">>
      [] OTHER             -> TRUE

WhiteSpace == {" ", "\t", "\n"}

RECURSIVE trimStart(_)
trimStart(c) ==
    IF c # <<>> /\ Head(c) \in WhiteSpace THEN trimStart(Tail(c)) ELSE c

RECURSIVE trimEnd(_)
trimEnd(c) ==
    IF c # <<>> /\ c[Len(c)] \in WhiteSpace
    THEN trimEnd(SubSeq(c, 1, Len(c) - 1)) ELSE c

\* String.prototype.trim
trim(c) == trimEnd(trimStart(c))

\* the string that the characters spell
RECURSIVE Join(_)
Join(c) == IF c = <<>> THEN "" ELSE Head(c) \o Join(Tail(c))

\* _validateLicenseKey(licenseKey)
validateLicenseKey(k) ==
    IF ~keyTruthy(k) \/ k.type # "string" \/ trim(k.chars) = <<>>
    THEN Throw("Validation")
    ELSE ReturnNull

\* activateLicense that asks for no target
activationTargetMissing_never(options) == FALSE

\* the check that opens activateLicense, after that of the key:
\* !options.hardwareId && !options.domain
activationTargetMissing(options) ==
    options.hardwareId = None /\ options.domain = None

\* Offline license data is a string or an object: text tells which,
\* parsable whether JSON.parse accepts the string, isObject whether the
\* value is an object rather than null, license and signature are its
\* members.  JSON.stringify of the data without its signature:
stringifyOffline(data) == << <<"license", data.license>> >>

\* verifier.verify(payload, signature) with the verifier built from the key
verifyWith(publicKey, payload, signature) ==
    signature[1] = publicKey /\ signature[2] = payload

\* validateOfflineLicense that stops at the first check that fails
validateOfflineLicense_firstError(data, options, configKey, t) ==
    IF data.text /\ ~data.parsable
    THEN Throw("Validation")
    ELSE IF ~data.isObject
    THEN Throw("TypeError")
    ELSE IF data.license = None \/ data.signature = None
    THEN Throw("Validation")
    ELSE LET publicKey == IF options.publicKey # None
                          THEN options.publicKey ELSE configKey
         IN  IF publicKey = None
             THEN Throw("Validation")
             ELSE IF publicKey[1] = "malformed"
             THEN Throw("Error")
             ELSE LET lic == data.license[1]
                      errors ==
                        IF ~verifyWith(publicKey[1], stringifyOffline(data),
                                       data.signature[1])
                        THEN {"Signature verification failed"}
                        ELSE IF Truthy(lic.expires_at)
                                /\ t - Day > lic.expires_at[1]
                        THEN {"License has expired"}
                        ELSE IF options.hardwareId # None
                                /\ lic.hardware_id # None
                                /\ options.hardwareId # lic.hardware_id
                        THEN {"Hardware ID mismatch"}
                        ELSE {}
                 IN  Return([valid   |-> errors = {},
                             license |-> lic,
                             errors  |-> errors])

\* validateOfflineLicense(offlineLicenseData, options) at time t: the
\* tolerance on expires_at is 24 hours
validateOfflineLicense(data, options, configKey, t) ==
    IF data.text /\ ~data.parsable
    THEN Throw("Validation")
    ELSE IF ~data.isObject
    THEN Throw("TypeError")
    ELSE IF data.license = None \/ data.signature = None
    THEN Throw("Validation")
    ELSE LET publicKey == IF options.publicKey # None
                          THEN options.publicKey ELSE configKey
         IN  IF publicKey = None
             THEN Throw("Validation")
             ELSE IF publicKey[1] = "malformed"
             THEN Throw("Error")
             ELSE LET lic == data.license[1]
                      e1 == IF verifyWith(publicKey[1], stringifyOffline(data),
                                          data.signature[1])
                            THEN {} ELSE {"Signature verification failed"}
                      e2 == IF Truthy(lic.expires_at)
                               /\ t - Day > lic.expires_at[1]
                            THEN {"License has expired"} ELSE {}
                      e3 == IF options.hardwareId # None
                               /\ lic.hardware_id # None
                               /\ options.hardwareId # lic.hardware_id
                            THEN {"Hardware ID mismatch"} ELSE {}
                      errors == e1 \cup e2 \cup e3
                 IN  Return([valid   |-> errors = {},
                             license |-> lic,
                             errors  |-> errors])

\* getLicenseState, the try/catch around resolveLicenseState: r is the
\* outcome of resolveLicenseState, and the message of an error is its reason
getLicenseState(r, t) ==
    IF r.kind = "throw" /\ instanceOf(r.error, "LicenseException")
    THEN Return(createRestrictedState(r.error, t))
    ELSE r

\* an error thrown with errorDetails
ThrowWith(e, details) == [kind |-> "throw", value |-> Some(details), error |-> e]

\* requireCapability that returns whatever state was resolved
requireCapability_unchecked(r, capability) == r

\* requireCapability, after the await of resolveLicenseState: r is the outcome
\* of resolveLicenseState
requireCapability(r, capability) ==
    IF r.kind = "throw"
    THEN r
    ELSE IF ~hasCapability(r.value[1], capability)
    THEN ThrowWith("State", [capability |-> capability,
                             state      |-> r.value[1].state])
    ELSE r

\* ----------------------------------------------------------------- inputs
\* a signature by the configured key over a serialization that is not the
\* one it is attached to
ForeignData == << <<"foreign", TRUE>> >>

SigKinds == {"none", "good", "foreign"}

\* no signature; the server's signature over this serialization; another
\* party's signature over it; the server's signature over something else
SignatureFor(kind, data) ==
    CASE kind = "none"    -> None
      [] kind = "good"    -> <<"server", data>>
      [] kind = "foreign" -> <<"other", data>>
      [] OTHER            -> <<"server", ForeignData>>

SortedOrder == <<"license", "valid">>
InsertionOrders == {<<"license", "valid">>, <<"valid", "license">>}

Licenses ==
    { Some([status |-> "active",  expires_at |-> Some(2), activated_at |-> None]),
      Some([status |-> "REVOKED", expires_at |-> None,    activated_at |-> None]) }

\* a response body; sigKind "canonical" is the server's signature over the
\* canonical serialization of the body
Body(valid, lic, wrapped, sigKind, order) ==
    LET inner == [data |-> None, valid |-> valid, license |-> lic,
                  signature |-> None, keys |-> order]
        plain == IF wrapped
                 THEN [data |-> Some(inner), valid |-> "undef",
                       license |-> None, signature |-> None,
                       keys |-> <<"data">>]
                 ELSE inner
    IN  [plain EXCEPT !.signature =
            IF sigKind = "canonical"
            THEN <<"server", canonicalizeJson(WithoutSignature(plain))>>
            ELSE SignatureFor(sigKind, JSONstringify(WithoutSignature(plain)))]

Bodies ==
    { Body(IF l[1].status = "active" THEN "true" ELSE "false", l, w, k,
           SortedOrder) :
         l \in Licenses, w \in BOOLEAN, k \in {"none", "good", "foreign"} }

NetOutcomes ==
    { [kind |-> "network_fail", body |-> None],
      [kind |-> "app_error", body |-> None] }
    \cup { [kind |-> "body", body |-> Some(b)] : b \in Bodies }

\* a payload with the given status and start of validity
SetPayload(status, validFrom) ==
    [status |-> status, valid |-> "true", valid_from |-> validFrom,
     valid_until |-> None,
     revalidation_failed |-> FALSE, last_verified_at |-> None,
     license_status |-> "", features_telemetry |-> "undef",
     features_updates |-> "undef", license_features_updates |-> "undef",
     metadata |-> ""]

\* payloads of the states handed to StateStore.set directly
SetPayloads == {SetPayload("active", None), SetPayload("revoked", None)}

\* ... and of those that prepare the store for a resolution: the second is
\* not yet valid before tick 3
SetupPayloads == {SetPayload("active", None), SetPayload("active", Some(3))}

\* an EntitlementState built now whose signature field is then set
SignedState(payload, sigKind, t) ==
    LET s == EntitlementState(payload, None, t) IN
    [s EXCEPT !.signature =
        SignatureFor(sigKind, stringifyState(WithoutSignature(toObject(s))))]

\* ttl arguments of the direct calls of StateStore.set
SetTtls == {None, Some(0), Some(1), Some(MaxTime - 1)}
\* ... and of those that prepare the store for a resolution
SetupTtls == {Some(1), Some(MaxTime - 1)}

Callers == {1}

\* capabilities asked of requireCapability: the three derived ones and one
\* that no payload supplies
RequiredCapabilities == {"updates", "downloads", "telemetry", "premium"}

\* ------------------------------------------------------------------ state
VARIABLES
    now,      \* Date.now() / 1000, in ticks
    config,   \* Configuration: cacheEnabled, verifier configured, cacheTtl
    store,    \* StateStore.store
    cache,    \* CacheManager._cache
    call,     \* the resolveLicenseState calls: position and history
    lastGet,  \* the last direct StateStore.get: the entry before and after,
              \* the set that made it, the outcome
    probe,    \* the last application of a constructor or resolver on its own
    req,      \* a validator call over the HTTP client, attempt by attempt
    heap,     \* the objects that states and store entries refer to
    setLog    \* per store key: ttl argument and time of the last set, and
              \* who made it: a direct call ("set") or resolveLicenseState
              \* after an HTTP validation ("network") or a response-cache
              \* hit ("cached")

vars == <<now, config, store, cache, call, lastGet, setLog, probe, req,
          heap>>

IdleCall ==
    [pc         |-> "idle",
     key        |-> "",
     startAt    |-> 0,
     startEntry |-> None,     \* store entry when the call began
     read       |-> "none",   \* outcome of the opening StateStore.get
     validated  |-> FALSE,    \* validateLicense was invoked
     netIssued  |-> FALSE,    \* an HTTP request was issued
     pending    |-> None,     \* response served by the response cache
     net        |-> "none",   \* outcome of validateLicense
     preEntry   |-> None,     \* store entry when the call resumed
     doneAt     |-> 0,
     result     |-> NoResult,  \* outcome of resolveLicenseState
     outer      |-> NoResult]  \* outcome of getLicenseState around it

NoGet == [key |-> None, at |-> 0, pre |-> None, set |-> None, post |-> None,
          totalBefore |-> 0, totalAfter |-> 0, ret |-> NoResult]

NoProbe == [op |-> "none"]

NoRequest == [op |-> "none", pc |-> "idle"]

\* no object allocated
NoHeap == [cells |-> <<>>, held |-> <<>>, entry |-> None,
           last |-> [op |-> "none", target |-> 0]]

Init ==
    /\ now = 1
    /\ config \in [cacheEnabled : BOOLEAN, verifier : BOOLEAN,
                   cacheTtl : TtlChoices]
    /\ store = [k \in StoreKeys |-> None]
    /\ cache = [k \in CacheKeys |-> None]
    /\ call = [c \in Callers |-> IdleCall]
    /\ lastGet = NoGet
    /\ setLog = [k \in StoreKeys |-> None]
    /\ probe = NoProbe
    /\ req = NoRequest
    /\ heap = NoHeap

\* no call has returned a result that its caller has not taken yet
Quiet == \A c \in DOMAIN call : call[c].pc \notin {"done", "returned"}

\* time passes
Tick ==
    /\ now < MaxTime
    /\ Quiet
    /\ now' = now + 1
    /\ UNCHANGED <<config, store, cache, call, lastGet, setLog, probe, req, heap>>

\* StateStore.set(key, state, ttl) called directly
StoreSet(key, s, ttl) ==
    /\ Quiet
    /\ store' = StateStoreSet(store, key, s, ttl, config.cacheTtl, now)
    /\ setLog' = [setLog EXCEPT ![key] =
                     Some([ttl |-> ttl, at |-> now, by |-> "set"])]
    /\ UNCHANGED <<now, config, cache, call, lastGet, probe, req, heap>>

\* StateStore.get(key) called directly
StoreGet(key) ==
    LET r == StateStoreGet(store, key, config.verifier, now) IN
    /\ store' = r.store
    /\ lastGet' = [key |-> Some(key), at |-> now, pre |-> store[key],
                   set |-> setLog[key], post |-> r.store[key],
                   totalBefore |-> StatsTotal(store),
                   totalAfter |-> StatsTotal(r.store), ret |-> r.ret]
    /\ UNCHANGED <<now, config, cache, call, setLog, probe, req, heap>>

\* resolveLicenseState(licenseKey) up to its return or its await
BeginResolve(c, key) ==
    /\ call[c].pc = "idle"
    /\ Quiet
    /\ IF key \in BadLicenseKeys
       THEN /\ call' = [call EXCEPT ![c] =
                          [IdleCall EXCEPT !.pc = "done", !.key = key,
                                           !.startAt = now, !.doneAt = now,
                                           !.result = Throw("Validation")]]
            /\ UNCHANGED <<store, cache>>
       ELSE LET sk   == getValidationKey(key)
                rd   == readCachedState(store, sk, config, now)
                base == [IdleCall EXCEPT !.key = key, !.startAt = now,
                                         !.startEntry = store[sk],
                                         !.read = rd.read]
            IN  IF rd.out.kind # "null"
                THEN /\ call' = [call EXCEPT ![c] =
                                   [base EXCEPT !.pc = "done", !.doneAt = now,
                                                !.result = rd.out]]
                     /\ store' = rd.store
                     /\ UNCHANGED cache
                ELSE LET cg == CacheManagerGet(cache, generateKey(key),
                                               config.cacheEnabled, now)
                     IN  /\ call' = [call EXCEPT ![c] =
                                       [base EXCEPT !.pc = "awaiting",
                                                    !.validated = TRUE,
                                                    !.netIssued = (cg.ret = None),
                                                    !.pending = cg.ret]]
                         /\ store' = rd.store
                         /\ cache' = cg.cache
    /\ UNCHANGED <<now, config, lastGet, setLog, probe, req, heap>>

\* the rest of resolveLicenseState once validateLicense has settled with hr
Resume(c, hr) ==
    LET sk == getValidationKey(call[c].key)
        av == afterValidate(store, sk, hr, config, now)
    IN  /\ store' = av.store
        /\ setLog' = IF av.stored
                     THEN [setLog EXCEPT ![sk] =
                             Some([ttl |-> None, at |-> now,
                                   by |-> IF call[c].netIssued
                                          THEN "network" ELSE "cached"])]
                     ELSE setLog
        /\ call' = [call EXCEPT ![c].pc = "done",
                                ![c].net = IF hr.kind = "return" THEN "ok"
                                           ELSE hr.error,
                                ![c].preEntry = store[sk],
                                ![c].doneAt = now,
                                ![c].result = av.result]

\* single flight: the response settles every pending request for the key
NetworkRespondStep_shared(c, outcome) ==
    /\ call[c].pc = "awaiting"
    /\ call[c].netIssued
    /\ LET hr == HttpClientRequest(outcome, config.verifier)
           sk == getValidationKey(call[c].key)
           av == afterValidate(store, sk, hr, config, now)
       IN  /\ cache' = IF hr.kind = "return"
                       THEN CacheManagerSet(cache, generateKey(call[c].key),
                                            hr.value[1], config.cacheEnabled,
                                            config.cacheTtl, now)
                       ELSE cache
           /\ store' = av.store
           /\ setLog' = IF av.stored
                        THEN [setLog EXCEPT ![sk] =
                                Some([ttl |-> None, at |-> now,
                                      by |-> "network"])]
                        ELSE setLog
           /\ call' = [d \in DOMAIN call |->
                         IF /\ call[d].pc = "awaiting"
                            /\ call[d].netIssued
                            /\ call[d].key = call[c].key
                         THEN [call[d] EXCEPT
                                 !.pc = "done",
                                 !.net = IF hr.kind = "return" THEN "ok"
                                         ELSE hr.error,
                                 !.preEntry = store[sk],
                                 !.doneAt = now,
                                 !.result = av.result]
                         ELSE call[d]]
    /\ UNCHANGED <<now, config, lastGet, req, heap>>

\* the HTTP request of validateLicense settles; a response is cached
NetworkRespondStep(c, outcome) ==
    /\ call[c].pc = "awaiting"
    /\ call[c].netIssued
    /\ LET hr == HttpClientRequest(outcome, config.verifier) IN
       /\ cache' = IF hr.kind = "return"
                   THEN CacheManagerSet(cache, generateKey(call[c].key),
                                        hr.value[1], config.cacheEnabled,
                                        config.cacheTtl, now)
                   ELSE cache
       /\ Resume(c, hr)
    /\ UNCHANGED <<now, config, lastGet, req, heap>>

NetworkRespond(c, outcome) ==
    /\ NetworkRespondStep(c, outcome)
    /\ UNCHANGED probe

\* the call was made through getLicenseState, whose try block now settles
GetLicenseStateReturn(c) ==
    /\ call[c].pc = "done"
    /\ call' = [call EXCEPT ![c].pc = "returned",
                            ![c].outer = getLicenseState(call[c].result, now)]
    /\ UNCHANGED <<now, config, store, cache, lastGet, setLog, probe, req, heap>>

\* the caller takes the result of a call that has returned or thrown
Finish(c) ==
    /\ call[c].pc \in {"done", "returned"}
    /\ call' = [call EXCEPT ![c] = IdleCall]
    /\ UNCHANGED <<now, config, store, cache, lastGet, setLog, probe, req, heap>>

\* validateLicense returned the response held by the response cache
ResumeCached(c) ==
    /\ call[c].pc = "awaiting"
    /\ ~call[c].netIssued
    /\ Resume(c, Return(call[c].pending[1]))
    /\ UNCHANGED <<now, config, cache, lastGet, probe, req, heap>>

Next ==
    \/ Tick
    \/ \E k \in StoreKeys, p \in SetupPayloads, sk \in SigKinds, ttl \in SetupTtls :
          StoreSet(k, SignedState(p, sk, now), ttl)
    \/ \E c \in Callers, key \in LicenseKeys \cup BadLicenseKeys :
          BeginResolve(c, key)
    \/ \E c \in Callers, o \in NetOutcomes : NetworkRespond(c, o)
    \/ \E c \in Callers : ResumeCached(c)
    \/ \E c \in Callers : GetLicenseStateReturn(c)
    \/ \E c \in Callers : Finish(c)

\* resolveLicenseState over a store that StateStore.set prepared
Spec == Init /\ [][Next]_vars

NextStore ==
    \/ Tick
    \/ \E k \in StoreKeys, p \in SetPayloads, sk \in SigKinds, ttl \in SetTtls :
          StoreSet(k, SignedState(p, sk, now), ttl)
    \/ \E k \in StoreKeys : StoreGet(k)

\* the StateStore on its own: set, get and the passage of time
SpecStore == Init /\ [][NextStore]_vars

\* ------------------------------------------- constructor and resolver alone
\* clock readings: up to past the end of the 7-day grace period of a validity
\* window that closed at tick 1 or 2
EvalTimes == 1..(GracePeriod + 3)

\* payloads handed to the constructor
ProbePayloads ==
    [status              : {"", "active", "REVOKED", "Suspended", "cancelled",
                            "restricted"},
     valid               : {"true", "false", "undef"},
     valid_from          : {None, Some(2)},
     valid_until         : {None, Some(1), Some(2)},
     revalidation_failed : BOOLEAN,
     last_verified_at    : {None, Some(1)},
     license_status      : {"", "Suspended"},
     features_telemetry  : {"undef"},
     features_updates    : {"undef", "true", "false"},
     license_features_updates : {"undef", "false"},
     metadata            : {""}]

\* responses handed to the resolver: both shapes, both insertion orders of
\* the members, unsigned or signed in each way
ProbeResponses ==
    { Body(IF l[1].status = "active" THEN "true" ELSE "false", l, w, k, o) :
         l \in Licenses, w \in BOOLEAN,
         k \in {"none", "good", "foreign", "canonical", "stale"},
         o \in InsertionOrders }

InitPure ==
    /\ now \in EvalTimes
    /\ config \in [cacheEnabled : {TRUE}, verifier : BOOLEAN, cacheTtl : {1}]
    /\ store = [k \in StoreKeys |-> None]
    /\ cache = [k \in CacheKeys |-> None]
    /\ call = [c \in Callers |-> IdleCall]
    /\ lastGet = NoGet
    /\ setLog = [k \in StoreKeys |-> None]
    /\ probe = NoProbe
    /\ req = NoRequest
    /\ heap = NoHeap

\* new EntitlementState(payload)
NewEntitlementState(payload) ==
    /\ probe.op = "none"
    /\ probe' = [op      |-> "construct",
                 payload |-> payload,
                 at      |-> now,
                 state   |-> EntitlementState(payload, None, now)]
    /\ UNCHANGED <<now, config, store, cache, call, lastGet, setLog, req, heap>>

\* resolveFromValidation(response), and what resolveLicenseState does with
\* this response over an empty store
ResolveResponse(response, key) ==
    /\ probe.op = "none"
    /\ probe' = [op       |-> "resolve",
                 response |-> response,
                 at       |-> now,
                 out      |-> resolveFromValidation(response, config.verifier,
                                                    now),
                 after    |-> afterValidate(store, getValidationKey(key),
                                            Return(response), config, now)]
    /\ UNCHANGED <<now, config, store, cache, call, lastGet, setLog, req, heap>>

\* requireCapability(key, capability) over an empty store, the server
\* answering with this response
RequireCapability(response, key, capability) ==
    /\ probe.op = "none"
    /\ LET after == afterValidate(store, getValidationKey(key),
                                  Return(response), config, now)
       IN  probe' = [op         |-> "require",
                     response   |-> response,
                     at         |-> now,
                     capability |-> capability,
                     after      |-> after,
                     out        |-> requireCapability(after.result,
                                                      capability)]
    /\ UNCHANGED <<now, config, store, cache, call, lastGet, setLog, req, heap>>

NextPure ==
    \/ \E p \in ProbePayloads : NewEntitlementState(p)
    \/ \E r \in ProbeResponses, k \in LicenseKeys : ResolveResponse(r, k)
    \/ \E r \in ProbeResponses, k \in LicenseKeys,
          cap \in RequiredCapabilities : RequireCapability(r, k, cap)

\* the constructor and the resolver applied to every input
SpecPure == InitPure /\ [][NextPure]_vars

\* ------------------------------- the validator over the HTTP client's loop
\* key arguments: null, '', blanks, a number, a well-formed key
KeyArgs ==
    {NullKey, StringKey(<<>>), StringKey(<<" ", "\t">>), NumberKey(<<"7">>),
     StringKey(<<"L", "1">>)}

ActivationOptions ==
    [hardwareId : {None, Some("hw1")}, domain : {None, Some("example.com")}]

\* offline license data: an unparsable string, the string "null", and
\* objects with and without their members, signed by the product's key or
\* by another
OfflineLicense == [expires_at |-> Some(2), hardware_id |-> Some("hw1")]

\* a license bound to no hardware that expires a day before the last clock
\* reading
UnboundLicense == [expires_at |-> Some(MaxTime - Day), hardware_id |-> None]

OfflineData ==
    { [text |-> TRUE, parsable |-> FALSE, isObject |-> FALSE,
       license |-> None, signature |-> None],
      [text |-> TRUE, parsable |-> TRUE, isObject |-> FALSE,
       license |-> None, signature |-> None],
      [text |-> FALSE, parsable |-> TRUE, isObject |-> TRUE,
       license |-> None,
       signature |-> Some(<<"server", << <<"license", None>> >> >>)] }
    \cup { [text |-> TRUE, parsable |-> TRUE, isObject |-> TRUE,
            license |-> Some(OfflineLicense),
            signature |-> IF sk = "none" THEN None
                          ELSE Some(<<sk, << <<"license",
                                               Some(OfflineLicense)>> >> >>)] :
              sk \in {"none", "server", "other"} }
    \cup { [text |-> FALSE, parsable |-> TRUE, isObject |-> TRUE,
            license |-> Some(UnboundLicense),
            signature |-> Some(<<sk, << <<"license",
                                          Some(UnboundLicense)>> >> >>)] :
              sk \in {"server", "other"} }

OfflineOptions ==
    [publicKey  : {None, Some("server"), Some("malformed")},
     hardwareId : {None, Some("hw2")}]

\* 2xx bodies of the server
ActiveLicense ==
    Some([status |-> "active", expires_at |-> Some(2), activated_at |-> None])

HttpBodies ==
    { Body("true", ActiveLicense, FALSE, k, SortedOrder) : k \in SigKinds }

\* what one HTTP attempt can settle with
AttemptOutcomes ==
    {Fault}
    \cup { RateLimited(ra) : ra \in {None, Some(2)} }
    \cup { Ok(b) : b \in HttpBodies }
    \cup { Rejected(400, f) : f \in {"standard", "legacy"} }
    \cup { Rejected(500, f) : f \in {"standard", "generic"} }

\* a client configured with or without verification, with or without the
\* product's public key, and with 0 to MAX_RETRY_ATTEMPTS attempts
InitHttp ==
    /\ now \in {1, MaxTime}
    /\ config \in { c \in [cacheEnabled  : BOOLEAN,
                            verifier      : BOOLEAN,
                            cacheTtl      : {MaxTime - 1},
                            retryAttempts : {0, 1, MAX_RETRY_ATTEMPTS},
                            retryDelay    : {RETRY_DELAY_MS},
                            publicKey     : {None, Some("server")}] :
                       c.verifier => c.publicKey # None }
    /\ store = [k \in StoreKeys |-> None]
    /\ cache = [k \in CacheKeys |-> None]
    /\ call = [c \in Callers |-> IdleCall]
    /\ lastGet = NoGet
    /\ setLog = [k \in StoreKeys |-> None]
    /\ probe = NoProbe
    /\ req = NoRequest
    /\ heap = NoHeap

\* a call of the validator that is about to run
NewRequest(op, k, input) ==
    [op |-> op, key |-> k, input |-> input, pc |-> "loop",
     loop |-> LoopStart, issued |-> 0, history |-> <<>>, last |-> None,
     wait |-> None, http |-> NoResult, result |-> NoResult]

\* the call threw or returned: result is its outcome
Settled(r, result) == [r EXCEPT !.pc = "done", !.result = result]

\* no call is in progress
NoCallRunning == req.pc \in {"idle", "done"}

\* What the method op does once validateLicense's or its own HTTP request
\* has settled with hr: validateLicense caches a response, activateLicense
\* and deactivateLicense clear the response cache of the license,
\* resolveLicenseState resolves the response and stores the state.
afterRequest(op, key, hr, st, ca, cfg, t) ==
    LET cached == IF hr.kind = "return"
                  THEN CacheManagerSet(ca, generateKey(key), hr.value[1],
                                       cfg.cacheEnabled, cfg.cacheTtl, t)
                  ELSE ca
    IN  CASE op = "validateLicense" ->
               [store |-> st, cache |-> cached, stored |-> FALSE,
                result |-> hr]
          [] op \in {"activateLicense", "deactivateLicense"} ->
               [store |-> st,
                cache |-> IF hr.kind = "return"
                          THEN [ca EXCEPT ![generateKey(key)] = None]
                          ELSE ca,
                stored |-> FALSE, result |-> hr]
          [] OTHER ->
               LET av == afterValidate(st, getValidationKey(key), hr, cfg, t)
               IN  [store |-> av.store, cache |-> cached,
                    stored |-> av.stored, result |-> av.result]

\* validateLicense(licenseKey) up to its return or its HTTP request
ValidateLicenseCall(k) ==
    /\ NoCallRunning
    /\ LET base == NewRequest("validateLicense", k, None)
           vk   == validateLicenseKey(k)
       IN  IF vk.kind = "throw"
           THEN /\ req' = Settled(base, vk)
                /\ UNCHANGED cache
           ELSE LET cg == CacheManagerGet(cache, generateKey(Join(k.chars)),
                                          config.cacheEnabled, now)
                IN  /\ cache' = cg.cache
                    /\ req' = IF cg.ret # None
                              THEN Settled(base, Return(cg.ret[1]))
                              ELSE base
    /\ UNCHANGED <<now, config, store, call, lastGet, setLog, probe, heap>>

\* activateLicense(licenseKey, options) up to its throw or its HTTP request
ActivateLicenseCall(k, options) ==
    /\ NoCallRunning
    /\ LET base == NewRequest("activateLicense", k, Some(options))
           vk   == validateLicenseKey(k)
       IN  req' = IF vk.kind = "throw"
                  THEN Settled(base, vk)
                  ELSE IF activationTargetMissing(options)
                  THEN Settled(base, Throw("Validation"))
                  ELSE base
    /\ UNCHANGED <<now, config, store, cache, call, lastGet, setLog, probe, heap>>

\* deactivateLicense(licenseKey) up to its throw or its HTTP request
DeactivateLicenseCall(k) ==
    /\ NoCallRunning
    /\ LET base == NewRequest("deactivateLicense", k, None)
           vk   == validateLicenseKey(k)
       IN  req' = IF vk.kind = "throw" THEN Settled(base, vk) ELSE base
    /\ UNCHANGED <<now, config, store, cache, call, lastGet, setLog, probe, heap>>

\* validateOfflineLicense(offlineLicenseData, options)
ValidateOfflineLicenseCall(data, options) ==
    /\ NoCallRunning
    /\ req' = Settled(NewRequest("validateOfflineLicense", NullKey,
                                 Some([data |-> data, options |-> options])),
                      validateOfflineLicense(data, options, config.publicKey,
                                             now))
    /\ UNCHANGED <<now, config, store, cache, call, lastGet, setLog, probe, heap>>

\* resolveLicenseState(licenseKey) up to its return or the HTTP request of
\* the validateLicense it awaits
ResolveLicenseStateCall(k) ==
    /\ NoCallRunning
    /\ LET base == NewRequest("resolveLicenseState", k, None)
           vk   == validateLicenseKey(k)
       IN  IF vk.kind = "throw"
           THEN /\ req' = Settled(base, vk)
                /\ UNCHANGED <<store, cache, setLog>>
           ELSE LET key == Join(k.chars)
                    sk  == getValidationKey(key)
                    rd  == readCachedState(store, sk, config, now)
                IN  IF rd.out.kind # "null"
                    THEN /\ req' = Settled(base, rd.out)
                         /\ store' = rd.store
                         /\ UNCHANGED <<cache, setLog>>
                    ELSE LET cg == CacheManagerGet(cache, generateKey(key),
                                                   config.cacheEnabled, now)
                             av == afterValidate(rd.store, sk,
                                                 Return(cg.ret[1]), config,
                                                 now)
                         IN  IF cg.ret # None
                             THEN /\ req' = Settled(base, av.result)
                                  /\ store' = av.store
                                  /\ cache' = cg.cache
                                  /\ setLog' =
                                       IF av.stored
                                       THEN [setLog EXCEPT ![sk] =
                                               Some([ttl |-> None, at |-> now,
                                                     by |-> "cached"])]
                                       ELSE setLog
                             ELSE /\ req' = base
                                  /\ store' = rd.store
                                  /\ cache' = cg.cache
                                  /\ UNCHANGED setLog
    /\ UNCHANGED <<now, config, call, lastGet, probe, heap>>

\* One pass of the loop of HttpClient.request: the attempt is issued and
\* settles with o.  When the pass leaves request, the method that awaited it
\* runs to its end.
Attempt(o) ==
    /\ req.pc = "loop"
    /\ loopContinues(req.loop, config)
    /\ LET ra   == requestAttempt(req.loop, o, config)
           made == [req EXCEPT !.issued = req.issued + 1,
                               !.history = Append(req.history, o.status),
                               !.last = Some(o),
                               !.loop = ra.loop,
                               !.wait = ra.wait]
       IN  IF ra.out.kind = "none"
           THEN /\ req' = [made EXCEPT !.pc = IF ra.wait # None
                                              THEN "sleep" ELSE "loop"]
                /\ UNCHANGED <<store, cache, setLog>>
           ELSE LET key == Join(req.key.chars)
                    ar  == afterRequest(req.op, key, ra.out, store, cache,
                                        config, now)
                IN  /\ req' = [made EXCEPT !.pc = "done", !.http = ra.out,
                                           !.result = ar.result]
                    /\ store' = ar.store
                    /\ cache' = ar.cache
                    /\ setLog' =
                         IF ar.stored
                         THEN [setLog EXCEPT ![getValidationKey(key)] =
                                 Some([ttl |-> None, at |-> now,
                                       by |-> "network"])]
                         ELSE setLog
    /\ UNCHANGED <<now, config, call, lastGet, probe, heap>>

\* the sleep that ended a pass is over
Wake ==
    /\ req.pc = "sleep"
    /\ req' = [req EXCEPT !.pc = "loop"]
    /\ UNCHANGED <<now, config, store, cache, call, lastGet, setLog, probe, heap>>

\* the loop ends without a result: request throws, and so does the method
Exhausted ==
    /\ req.pc = "loop"
    /\ ~loopContinues(req.loop, config)
    /\ LET hr  == loopExhausted(req.loop)
           key == Join(req.key.chars)
           ar  == afterRequest(req.op, key, hr, store, cache, config, now)
       IN  /\ req' = [req EXCEPT !.pc = "done", !.http = hr,
                                 !.result = ar.result]
           /\ store' = ar.store
           /\ cache' = ar.cache
    /\ UNCHANGED <<now, config, call, lastGet, setLog, probe, heap>>

NextHttp ==
    \/ \E k \in KeyArgs : ValidateLicenseCall(k)
    \/ \E k \in KeyArgs : ResolveLicenseStateCall(k)
    \/ \E k \in KeyArgs, o \in ActivationOptions : ActivateLicenseCall(k, o)
    \/ \E k \in KeyArgs : DeactivateLicenseCall(k)
    \/ \E d \in OfflineData, o \in OfflineOptions :
          ValidateOfflineLicenseCall(d, o)
    \/ \E o \in AttemptOutcomes : Attempt(o)
    \/ Wake
    \/ Exhausted

\* the validator's calls, one after the other, over the loop of request
SpecHttp == InitHttp /\ [][NextHttp]_vars

\* ... where every HTTP attempt settles (the request has a timeout), every
\* sleep ends, and the loop condition is evaluated
SpecHttpLive ==
    /\ SpecHttp
    /\ WF_vars(\E o \in AttemptOutcomes : Attempt(o))
    /\ WF_vars(Wake)
    /\ WF_vars(Exhausted)

\* --------------------------------------- the StateStore and object identity
\* The capabilities and the metadata of an EntitlementState are objects: a
\* state holds references to them.  heap.cells maps an address to the
\* object's content; an instance is the record of its primitive fields
\* (core) with the addresses of its two objects; heap.held are the instances
\* that callers hold, heap.entry the one entry of the store.
MaxHeld == 3

\* the content of the object at address a
Deref(h, a) == h.cells[a]

\* the instance with its objects read through their references
HeldValue(h, inst) ==
    [inst.core EXCEPT !.capabilities = Deref(h, inst.cap),
                      !.metadata = Deref(h, inst.meta)]

\* new EntitlementState(payload, signature) by a caller: extractCapabilities
\* builds a new object, metadata is the payload's object
Construct(p, sk) ==
    /\ Len(heap.held) < MaxHeld
    /\ LET s == SignedState(p, sk, now)
           n == Len(heap.cells)
       IN  heap' = [heap EXCEPT
                      !.cells = heap.cells \o <<s.capabilities, s.metadata>>,
                      !.held = Append(heap.held,
                                      [core |-> s, cap |-> n + 1,
                                       meta |-> n + 2, origin |-> "new"]),
                      !.last = [op |-> "construct", target |-> 0]]
    /\ UNCHANGED <<now, config, store, cache, call, lastGet, setLog, probe,
                   req>>

\* StateStore.set(key, state): the entry holds state.toObject(), whose
\* capabilities and metadata members are the state's own objects
HeapSet(i) ==
    /\ i \in 1..Len(heap.held)
    /\ heap' = [heap EXCEPT
                  !.entry = Some([core      |-> toObject(heap.held[i].core),
                                  cap       |-> heap.held[i].cap,
                                  meta      |-> heap.held[i].meta,
                                  expiresAt |-> now + config.cacheTtl]),
                  !.last = [op |-> "set", target |-> i]]
    /\ UNCHANGED <<now, config, store, cache, call, lastGet, setLog, probe,
                   req>>

\* StateStore.get(key): fromCache verifies the entry as it is now and builds
\* a new instance from it; the constructor computes new capabilities and
\* takes the metadata object of the cached data
HeapGet ==
    /\ heap.entry # None
    /\ Len(heap.held) < MaxHeld
    /\ LET e == heap.entry[1]
           cachedData == [e.core EXCEPT !.capabilities = Deref(heap, e.cap),
                                        !.metadata = Deref(heap, e.meta)]
           r == fromCache(cachedData, config.verifier, now)
           n == Len(heap.cells)
       IN  IF e.expiresAt < now \/ r.kind = "throw"
           THEN heap' = [heap EXCEPT !.entry = None,
                                     !.last = [op |-> "get", target |-> 0]]
           ELSE heap' = [heap EXCEPT
                           !.cells = Append(heap.cells,
                                            r.value[1].capabilities),
                           !.held = Append(heap.held,
                                           [core |-> r.value[1],
                                            cap |-> n + 1, meta |-> e.meta,
                                            origin |-> "get"]),
                           !.last = [op |-> "get",
                                     target |-> Len(heap.held) + 1]]
    /\ UNCHANGED <<now, config, store, cache, call, lastGet, setLog, probe,
                   req>>

\* a caller assigns to a member of the capabilities or of the metadata of an
\* instance it holds
Mutate(i, field) ==
    /\ i \in 1..Len(heap.held)
    /\ heap' = [heap EXCEPT
                  !.cells = IF field = "capabilities"
                            THEN [@ EXCEPT ![heap.held[i].cap] =
                                     [@ EXCEPT !.updates = ~@]]
                            ELSE [@ EXCEPT ![heap.held[i].meta] = "changed"],
                  !.last = [op |-> "mutate", target |-> i]]
    /\ UNCHANGED <<now, config, store, cache, call, lastGet, setLog, probe,
                   req>>

\* a store with or without a verifier, empty, and no state built yet
InitHeap ==
    /\ now = 1
    /\ config \in [cacheEnabled : {TRUE}, verifier : BOOLEAN, cacheTtl : {1}]
    /\ store = [k \in StoreKeys |-> None]
    /\ cache = [k \in CacheKeys |-> None]
    /\ call = [c \in Callers |-> IdleCall]
    /\ lastGet = NoGet
    /\ setLog = [k \in StoreKeys |-> None]
    /\ probe = NoProbe
    /\ req = NoRequest
    /\ heap = NoHeap

NextHeap ==
    \/ \E sk \in {"good", "foreign"} :
          Construct(SetPayload("active", None), sk)
    \/ \E i \in 1..MaxHeld : HeapSet(i)
    \/ HeapGet
    \/ \E i \in 1..MaxHeld, f \in {"capabilities", "metadata"} : Mutate(i, f)

\* states built, stored, read back and mutated by their holders
SpecHeap == InitHeap /\ [][NextHeap]_vars

\* ------------------------------------------- two callers of the validator
TwoCallers == {1, 2}

\* what the server answered to the last request of each caller
NoResponses == [op |-> "responses", got |-> [c \in TwoCallers |-> None]]

InitTwo ==
    /\ now = 1
    /\ config \in [cacheEnabled : BOOLEAN, verifier : BOOLEAN,
                   cacheTtl : {MaxTime - 1}]
    /\ store = [k \in StoreKeys |-> None]
    /\ cache = [k \in CacheKeys |-> None]
    /\ call = [c \in TwoCallers |-> IdleCall]
    /\ lastGet = NoGet
    /\ setLog = [k \in StoreKeys |-> None]
    /\ probe = NoResponses
    /\ req = NoRequest
    /\ heap = NoHeap

\* the HTTP request of caller c settles with this outcome
NetworkRespondTo(c, outcome) ==
    /\ NetworkRespondStep(c, outcome)
    /\ probe' = [probe EXCEPT !.got[c] = Some(outcome)]

NextTwo ==
    \/ \E c \in TwoCallers, key \in LicenseKeys : BeginResolve(c, key)
    \/ \E c \in TwoCallers, o \in NetOutcomes : NetworkRespondTo(c, o)
    \/ \E c \in TwoCallers : ResumeCached(c)
    \/ \E c \in TwoCallers : Finish(c)

\* resolveLicenseState called by two callers whose awaits interleave
SpecTwo == InitTwo /\ [][NextTwo]_vars

\* ------------------------------------------------ vocabulary of the claims
\* e is an optional store entry.  It is unexpired at t when no more than its
\* ttl has elapsed since it was set.
EntryUnexpired(e, t) == e # None /\ t <= e[1].expiresAt

\* the signature embedded in the entry is one by the configured key over the
\* entry's own serialization
EntryValidlySigned(e) ==
    /\ e # None
    /\ e[1].state.signature # None
    /\ e[1].state.signature
          = <<"server", stringifyState(WithoutSignature(e[1].state))>>

\* the signature of the entry is missing, or a verifier is configured and
\* the signature does not verify
EntrySignatureFails(e) ==
    /\ e # None
    /\ \/ e[1].state.signature = None
       \/ config.verifier /\ ~EntryValidlySigned(e)

\* a read of the entry at t yields a state: unexpired and not failing
EntryUsable(e, t) == EntryUnexpired(e, t) /\ ~EntrySignatureFails(e)

\* ticks since the entry was last verified against the server
EntryAge(e, t) == t - e[1].state.last_verified_at[1]

Resolving(c) == call[c].pc # "idle" /\ call[c].key \in LicenseKeys

\* C1: a call that ends in a network failure while the store holds an
\* unexpired, validly signed ACTIVE entry verified less than 72 hours ago
\* returns a GRACE state that allows operation
C1_GraceOnNetworkFailure ==
    \A c \in Callers :
       ( /\ call[c].pc = "done"
         /\ config.cacheEnabled
         /\ call[c].net = "Network"
         /\ EntryUnexpired(call[c].preEntry, call[c].doneAt)
         /\ EntryValidlySigned(call[c].preEntry)
         /\ call[c].preEntry[1].state.state = STATE_ACTIVE
         /\ EntryAge(call[c].preEntry, call[c].doneAt) < GraceWindow )
       => ( /\ call[c].result.kind = "return"
            /\ call[c].result.value[1].state = STATE_GRACE
            /\ allowsOperation(call[c].result.value[1]) )

\* the case of C1, C2: the entry that the fallback reads is unexpired,
\* validly signed and allows operation
FallbackOnGoodEntry(c) ==
    /\ call[c].pc = "done"
    /\ call[c].net = "Network"
    /\ EntryUnexpired(call[c].preEntry, call[c].doneAt)
    /\ EntryValidlySigned(call[c].preEntry)
    /\ call[c].preEntry[1].state.state \in {STATE_ACTIVE, STATE_GRACE}

StartSignatureFailure(c) ==
    /\ Resolving(c)
    /\ config.cacheEnabled
    /\ EntryUnexpired(call[c].startEntry, call[c].startAt)
    /\ EntrySignatureFails(call[c].startEntry)

GetOnSignatureFailure ==
    /\ lastGet.key # None
    /\ EntryUnexpired(lastGet.pre, lastGet.at)
    /\ EntrySignatureFails(lastGet.pre)

\* C5: get on an unexpired entry whose signature is missing or fails throws
\* a SignatureFailure and deletes the entry
C5_SignatureFailureOnGet ==
    GetOnSignatureFailure
    => lastGet.ret = Throw("Signature") /\ lastGet.post = None

\* C6: for an entry stored by set(key, state, ttl), get returns a miss and
\* removes the entry, so that getStats().total drops by one, once more than
\* ttl has elapsed (ttl omitted: the configured default), and does not
\* report a miss before that
C6_TtlExpiry ==
    ( lastGet.key # None /\ lastGet.pre # None /\ lastGet.set # None )
    => LET ttl     == IF lastGet.set[1].ttl = None
                      THEN config.cacheTtl
                      ELSE lastGet.set[1].ttl[1]
           elapsed == lastGet.at - lastGet.set[1].at
       IN  /\ elapsed > ttl => /\ lastGet.ret = ReturnNull
                               /\ lastGet.post = None
                               /\ lastGet.totalAfter = lastGet.totalBefore - 1
           /\ elapsed <= ttl => lastGet.ret.kind # "null"

\* the case of C7: caching is on and the entry for the key is usable and was
\* verified no longer ago than the revalidation interval
FreshHit(key, st, t) ==
    /\ key \in LicenseKeys
    /\ config.cacheEnabled
    /\ EntryUsable(st[getValidationKey(key)], t)
    /\ EntryAge(st[getValidationKey(key)], t) <= RevalidationInterval

\* C7: on a fresh hit resolveLicenseState returns a state at once: no HTTP
\* request is issued, validateLicense is not invoked, and the StateStore and
\* the response cache are left as they were
C7_FreshHitReturns ==
    [][ \A c \in Callers :
          ( /\ call[c].pc = "idle"
            /\ call'[c].pc # "idle"
            /\ FreshHit(call'[c].key, store, now) )
          => ( /\ call'[c].pc = "done"
               /\ call'[c].result.kind = "return"
               /\ ~call'[c].validated
               /\ ~call'[c].netIssued
               /\ store' = store
               /\ cache' = cache ) ]_vars

C7_Witness ==
    \E c \in Callers :
       /\ call[c].pc = "done"
       /\ FreshHit(call[c].key, [k \in StoreKeys |-> call[c].startEntry],
                   call[c].startAt)
       /\ call[c].result.kind = "return"
       /\ ~call[c].netIssued

\* C8: a usable entry whose last verification is older than the revalidation
\* interval is not returned directly: the call goes on to validate
C8_StaleHitRevalidates ==
    \A c \in Callers :
       ( /\ Resolving(c)
         /\ config.cacheEnabled
         /\ EntryUsable(call[c].startEntry, call[c].startAt)
         /\ EntryAge(call[c].startEntry, call[c].startAt) > RevalidationInterval )
       => call[c].validated

\* the opening read found a usable entry
StartUsable(c) ==
    config.cacheEnabled /\ EntryUsable(call[c].startEntry, call[c].startAt)

\* validateLicense was served by the response cache: no HTTP request
ServedByResponseCache(c) ==
    call[c].validated /\ ~call[c].netIssued /\ call[c].pending # None

C10_SuccessPersists ==
    [][ \A c \in Callers :
          ( /\ call[c].pc = "awaiting"
            /\ call[c].netIssued
            /\ call'[c].pc = "done"
            /\ call'[c].net = "ok"
            /\ config.cacheEnabled )
          => ( /\ call'[c].result.kind = "return"
               /\ call'[c].result.value[1].lastVerifiedAt = now
               /\ store'[getValidationKey(call[c].key)]
                     = Some([state     |-> toObject(call'[c].result.value[1]),
                             expiresAt |-> now + config.cacheTtl]) ) ]_vars

C10_Witness ==
    \E c \in Callers :
       /\ call[c].pc = "done"
       /\ call[c].netIssued
       /\ call[c].net = "ok"
       /\ config.cacheEnabled
       /\ call[c].preEntry # None
       /\ call[c].result.kind = "return"
       /\ store[getValidationKey(call[c].key)]
             = Some([state     |-> toObject(call[c].result.value[1]),
                     expiresAt |-> call[c].doneAt + config.cacheTtl])
       /\ store[getValidationKey(call[c].key)] # call[c].preEntry

\* the case of C11: caching is on and the entry under the key was persisted
\* by a resolveLicenseState that validated over the network, no longer ago
\* than the ttl and the revalidation interval, and has not been read since
PersistedByValidation(key, t) ==
    LET sk == getValidationKey(key) IN
    /\ key \in LicenseKeys
    /\ config.cacheEnabled
    /\ store[sk] # None
    /\ setLog[sk] # None
    /\ setLog[sk][1].by = "network"
    /\ t - setLog[sk][1].at <= config.cacheTtl
    /\ t - setLog[sk][1].at <= RevalidationInterval

\* C11: the next resolveLicenseState for a key whose entry was persisted by
\* a network validation, within the ttl and the revalidation interval, is
\* served from the StateStore: get returns the persisted state, the entry
\* stays, and no validation is made
C11_ReadAfterWrite ==
    [][ \A c \in Callers :
          ( /\ call[c].pc = "idle"
            /\ call'[c].pc # "idle"
            /\ PersistedByValidation(call'[c].key, now) )
          => ( /\ call'[c].read = "return"
               /\ call'[c].result.kind = "return"
               /\ ~call'[c].validated
               /\ store' = store ) ]_vars

\* a read of the entry at t yields a state that allows operation
EntryReadAllows(e, t) ==
    /\ EntryUsable(e, t)
    /\ allowsOperation(fromCache(e[1].state, config.verifier, t).value[1])

C13_FailureGivesRestricted ==
    \A c \in Callers :
       ( /\ call[c].pc = "returned"
         /\ call[c].result.kind = "throw" )
       => ( /\ call[c].outer.kind = "return"
            /\ call[c].outer.value[1].state = STATE_RESTRICTED
            /\ ~allowsOperation(call[c].outer.value[1])
            /\ call[c].outer.value[1].metadata = call[c].result.error )

\* C14: with a verifier configured, every entry that resolveLicenseState
\* persisted carries a signature
C14_PersistedCarrySignature ==
    config.verifier
    => \A k \in StoreKeys :
          ( /\ store[k] # None
            /\ setLog[k] # None
            /\ setLog[k][1].by \in {"network", "cached"} )
          => store[k][1].state.signature # None

\* the case of C15: a verifier is configured and the response handed to the
\* resolver carries a signature that verifies against neither its
\* serialization as received nor its canonical serialization
ResolvedBadSignature ==
    /\ probe.op = "resolve"
    /\ config.verifier
    /\ probe.response.signature # None
    /\ ~verify(JSONstringify(WithoutSignature(probe.response)),
               probe.response.signature)
    /\ ~verify(canonicalizeJson(WithoutSignature(probe.response)),
               probe.response.signature)

\* C15: a response whose signature does not verify makes
\* resolveFromValidation throw a SignatureFailure, so that no state is
\* built, and resolveLicenseState throws it on and persists nothing
C15_BadSignatureFails ==
    ResolvedBadSignature
    => ( /\ probe.out = Throw("Signature")
         /\ probe.after.result = Throw("Signature")
         /\ ~probe.after.stored
         /\ probe.after.store = store )

C15_Witness ==
    /\ ResolvedBadSignature
    /\ probe.response.data # None
    /\ probe.out.kind = "throw"
    /\ probe.after.store = [k \in StoreKeys |-> None]

\* the sequence in the opposite order
Reversed(q) == [i \in 1..Len(q) |-> q[Len(q) + 1 - i]]

\* the structurally equal response whose members (those of data, for the
\* wrapped shape) were inserted in the opposite order
Reordered(r) ==
    IF r.data = None
    THEN [r EXCEPT !.keys = Reversed(@)]
    ELSE [r EXCEPT !.data = Some([@[1] EXCEPT !.keys = Reversed(@)])]

\* C16: the resolver accepts a signed response exactly when the signature
\* verifies against the canonical serialization of the response without
\* its signature, and so decides alike for the structurally equal response
\* built in another key order
C16_CanonicalVerification ==
    ( /\ probe.op = "resolve"
      /\ config.verifier
      /\ probe.response.signature # None )
    => LET r  == probe.response
           accepted(x) == verifySignature(x, x.signature, TRUE).kind # "throw"
       IN  /\ accepted(r) = accepted(Reordered(r))
           /\ accepted(r) = verify(canonicalizeJson(WithoutSignature(r)),
                                   r.signature)

\* the status is one of revoked, suspended, cancelled, in any letter case
InvalidatingStatus(payload) ==
    Lower(payload.status) \in {"revoked", "suspended", "cancelled"}

\* valid_from is set and lies in the future at t
NotYetValid(payload, t) ==
    payload.valid_from # None /\ t < payload.valid_from[1]

\* valid_until is set and lies in the past at t
Expired(payload, t) ==
    payload.valid_until # None /\ t > payload.valid_until[1]

\* C17: an invalidating status makes the state INVALID whatever valid,
\* valid_from, valid_until and revalidation_failed are, and the state does
\* not allow operation
C17_InvalidatingStatus ==
    ( probe.op = "construct" /\ InvalidatingStatus(probe.payload) )
    => ( /\ probe.state.state = STATE_INVALID
         /\ ~allowsOperation(probe.state) )

C17_Witness ==
    /\ probe.op = "construct"
    /\ probe.payload.status = "Suspended"
    /\ probe.payload.valid = "true"
    /\ NotYetValid(probe.payload, probe.at)
    /\ probe.state.state = STATE_INVALID

\* C18: with no invalidating status and valid_from not in the future, a
\* payload past its valid_until is GRACE when less than 7 days have passed
\* since and RESTRICTED from 7 days on, whatever valid is; up to valid_until
\* it is classified as the same payload without valid_until
C18_ExpiryWindow ==
    ( /\ probe.op = "construct"
      /\ ~InvalidatingStatus(probe.payload)
      /\ ~NotYetValid(probe.payload, probe.at)
      /\ probe.payload.valid_until # None )
    => LET p == probe.payload
           t == probe.at
       IN  IF t > p.valid_until[1]
           THEN probe.state.state =
                   IF t - p.valid_until[1] < 7 * Day
                   THEN STATE_GRACE ELSE STATE_RESTRICTED
           ELSE /\ probe.state.state \notin {STATE_RESTRICTED, STATE_INVALID}
                /\ probe.state.state =
                      determineState([p EXCEPT !.valid_until = None], t)

C18_Witness ==
    /\ probe.op = "construct"
    /\ probe.payload.valid = "true"
    /\ probe.payload.status = "active"
    /\ probe.payload.valid_until # None
    /\ probe.at - probe.payload.valid_until[1] = 7 * Day
    /\ probe.state.state = STATE_RESTRICTED

\* the six rules in their order of precedence (an absent last_verified_at
\* counts as time 0)
SixRules(p, t) ==
    CASE InvalidatingStatus(p)  -> STATE_INVALID
      [] ~InvalidatingStatus(p) /\ NotYetValid(p, t) -> STATE_RESTRICTED
      [] ~InvalidatingStatus(p) /\ ~NotYetValid(p, t) /\ Expired(p, t) ->
            IF t - p.valid_until[1] < 7 * Day
            THEN STATE_GRACE ELSE STATE_RESTRICTED
      [] OTHER ->
            IF p.valid = "true" THEN STATE_ACTIVE
            ELSE IF p.revalidation_failed
                    /\ t - (IF p.last_verified_at = None THEN 0
                            ELSE p.last_verified_at[1]) < 3 * Day
                 THEN STATE_GRACE
                 ELSE STATE_ACTIVE

\* C19: the state of every payload at every time is the one the six rules
\* give, each rule yielding to the ones before it
C19_SixRulePrecedence ==
    probe.op = "construct"
    => probe.state.state = SixRules(probe.payload, probe.at)

C19_Witness ==
    /\ probe.op = "construct"
    /\ probe.payload.valid = "true"
    /\ probe.payload.revalidation_failed
    /\ Expired(probe.payload, probe.at)
    /\ probe.at - probe.payload.valid_until[1] < 7 * Day
    /\ probe.state.state = STATE_GRACE

\* C20: for a payload of the normalized schema (status at the top level, no
\* nested license), updates is false when valid is false or the status is
\* revoked or suspended and true otherwise, whatever updates entry the
\* features supply
C20_UpdatesCapability ==
    ( probe.op = "construct" /\ probe.payload.license_status = "" )
    => probe.state.capabilities.updates
          = ~( \/ probe.payload.valid = "false"
               \/ Lower(probe.payload.status) \in {"revoked", "suspended"} )

\* the statuses for which downloads are granted
DownloadStatuses == {"active", "assigned", "available"}

\* C21: for every payload, downloads is true exactly when the status (at
\* the top level or in the nested license) is active, assigned or available,
\* or valid is true
C21_DownloadsCapability ==
    probe.op = "construct"
    => probe.state.capabilities.downloads
          = ( \/ Lower(probe.payload.status) \in DownloadStatuses
              \/ Lower(probe.payload.license_status) \in DownloadStatuses
              \/ probe.payload.valid = "true" )

\* a requireCapability call has settled over a resolved state
Required ==
    /\ probe.op = "require"
    /\ probe.after.result.kind = "return"

\* the state that resolveLicenseState handed to requireCapability grants the
\* capability asked for
ResolvedGrants ==
    /\ probe.capability \in DOMAIN probe.after.result.value[1].capabilities
    /\ probe.after.result.value[1].capabilities[probe.capability] = TRUE

C23_RequireCapabilityValid ==
    ( /\ Required
      /\ probe.capability \in {"updates", "downloads"}
      /\ probe.out.kind = "return" )
    => allowsOperation(probe.out.value[1])

\* the key is null, not a string, empty or made of white space only
MalformedKey(k) ==
    \/ k.type # "string"
    \/ \A i \in DOMAIN k.chars : k.chars[i] \in WhiteSpace

\* the call r was given malformed input: a malformed key (online methods),
\* no activation target, an unparsable string, or offline data that is an
\* object while neither the options nor the configuration have a public key
MalformedCall(r) ==
    \/ /\ r.op \in {"validateLicense", "resolveLicenseState",
                    "activateLicense"}
       /\ MalformedKey(r.key)
    \/ /\ r.op = "activateLicense"
       /\ r.input[1].hardwareId = None
       /\ r.input[1].domain = None
    \/ /\ r.op = "validateOfflineLicense"
       /\ \/ r.input[1].data.text /\ ~r.input[1].data.parsable
          \/ /\ r.input[1].data.isObject
             /\ r.input[1].options.publicKey = None
             /\ config.publicKey = None

TransportFault(status) == status = 0 \/ status >= 500
AppRejection(status) == status >= 400 /\ status < 500 /\ status # 429

\* C25: an attempt is followed by another one only if it failed with a
\* transport fault (no response, or a 5xx response) or was rate limited; an
\* application-level rejection ends the request with a throw on the attempt
\* that received it; a 5xx response ends the request only when no attempts
\* remain
C25_RetryOnlyTransportFaults ==
    req.op # "none"
    => /\ \A i \in 1..(Len(req.history) - 1) :
             TransportFault(req.history[i]) \/ req.history[i] = 429
       /\ \A i \in 1..Len(req.history) :
             AppRejection(req.history[i])
             => ( i = Len(req.history) /\ req.pc = "done"
                  /\ req.http.kind = "throw" )
       /\ ( /\ req.pc = "done"
            /\ req.history # <<>>
            /\ req.history[Len(req.history)] >= 500 )
          => req.issued >= config.retryAttempts

\* the request of the call is running
RequestRunning == req.pc \in {"loop", "sleep"}

\* the number of entries of h that satisfy neither 2xx nor rejection: the
\* attempts that got no response or a 429
Consumed(h) == Cardinality({i \in 1..Len(h) : h[i] = 0 \/ h[i] = 429})

\* what C26 says of every state of a request
C26_Bounded ==
    ( req.op # "none" /\ req.op # "validateOfflineLicense" )
    => /\ req.issued <= config.retryAttempts
       /\ req.issued = Len(req.history)
       /\ req.loop.attempt = Consumed(req.history)
       /\ ( req.pc = "sleep" /\ req.last[1].status = 429 )
          => req.wait = Some(IF req.last[1].retry_after # None
                             THEN req.last[1].retry_after[1] * 1000
                             ELSE config.retryDelay)
       /\ ( req.pc = "done" /\ req.http.kind # "none" )
          => \/ /\ req.http.kind = "return"
                /\ req.last[1].status = 200
             \/ /\ req.http.kind = "throw"
                /\ req.http.error # "Network"
                /\ req.last[1].kind = "response"
                /\ req.last[1].status # 429
             \/ /\ req.http = Throw("Network")
                /\ req.issued = config.retryAttempts
                /\ Consumed(req.history) = req.issued

FailsVerification(body) ==
    /\ body.signature # None
    /\ ~verify(JSONstringify(WithoutSignature(body)), body.signature)
    /\ ~verify(canonicalizeJson(WithoutSignature(body)), body.signature)

\* C27: with a verifier configured, the attempt that receives a 2xx body
\* whose signature fails verification ends the request with a throw: the
\* body is not returned, no further attempt follows, and neither the response
\* cache nor the StateStore is written
C27_UnverifiedNeverAccepted ==
    [][ ( /\ req.pc = "loop"
          /\ req'.issued = req.issued + 1
          /\ config.verifier
          /\ req'.last[1].status = 200
          /\ FailsVerification(req'.last[1].body[1]) )
        => ( /\ req'.pc = "done"
             /\ req'.http = Throw("Signature")
             /\ req'.result.kind = "throw"
             /\ store' = store
             /\ cache' = cache ) ]_vars

\* C27 witness: over a StateStore that holds an entry, a validateLicense call
\* has thrown on an unverifiable 2xx body
C27_Witness ==
    /\ req.op = "validateLicense"
    /\ req.pc = "done"
    /\ config.verifier
    /\ req.last # None
    /\ req.last[1].status = 200
    /\ FailsVerification(req.last[1].body[1])
    /\ req.http = Throw("Signature")
    /\ \E k \in StoreKeys : store[k] # None

\* the stored entry with its objects read through their references
EntryValue(h) ==
    IF h.entry = None
    THEN None
    ELSE Some([h.entry[1].core EXCEPT
                  !.capabilities = Deref(h, h.entry[1].cap),
                  !.metadata = Deref(h, h.entry[1].meta)])

\* C28: when a caller mutates the capabilities or the metadata of a state it
\* passed to set or got from get, the stored entry and every state returned
\* by another get stay as they were
C28_NoSharedObjects ==
    [][ ( heap'.last.op = "mutate" /\ heap' # heap )
        => ( /\ EntryValue(heap') = EntryValue(heap)
             /\ \A j \in 1..Len(heap.held) :
                   ( j # heap'.last.target /\ heap.held[j].origin = "get" )
                   => HeldValue(heap', heap'.held[j])
                         = HeldValue(heap, heap.held[j]) ) ]_vars

\* what validateLicense handed to caller c: the body the server sent to c,
\* unwrapped
Received(c) == HttpClientRequest(probe.got[c][1], config.verifier)

\* the store entry that set makes of the state that c returned
EntryFrom(c) ==
    [state     |-> toObject(call[c].result.value[1]),
     expiresAt |-> call[c].doneAt + config.cacheTtl]

\* c's resolveLicenseState has returned a state after its own HTTP request
ReturnedOwn(c) ==
    /\ call[c].pc = "done"
    /\ call[c].netIssued
    /\ call[c].result.kind = "return"

\* C29: two resolveLicenseState calls for one key that are pending together,
\* each begun over an empty StateStore and an empty response cache, have
\* each issued an HTTP request; each returns the state resolved from the
\* response to its own request; and once both have returned the StateStore
\* holds the entry of one of them, whole
C29_IndependentCalls ==
    /\ ( /\ \A c \in TwoCallers :
               call[c].pc = "awaiting" /\ call[c].startEntry = None
         /\ call[1].key = call[2].key
         /\ cache[generateKey(call[1].key)] = None )
       => \A c \in TwoCallers : call[c].netIssued
    /\ \A c \in TwoCallers :
          ( call[c].pc = "done" /\ call[c].netIssued )
          => /\ probe.got[c] # None
             /\ call[c].result.kind = "return"
                => /\ Received(c).kind = "return"
                   /\ call[c].result =
                         resolveFromValidation(Received(c).value[1],
                                               config.verifier,
                                               call[c].doneAt)
    /\ ( /\ \A c \in TwoCallers : ReturnedOwn(c)
         /\ call[1].key = call[2].key
         /\ config.cacheEnabled )
       => LET e == store[getValidationKey(call[1].key)] IN
          /\ e # None
          /\ e[1] \in {EntryFrom(c) : c \in TwoCallers}

\* C29 witness: both calls began over empty caches, were pending together,
\* received different responses and returned different states; the store
\* holds the entry of the second caller
C29_Witness ==
    /\ \A c \in TwoCallers : ReturnedOwn(c) /\ call[c].startEntry = None
    /\ config.cacheEnabled
    /\ probe.got[1] # probe.got[2]
    /\ call[1].result # call[2].result
    /\ store[getValidationKey(call[1].key)] = Some(EntryFrom(2))

\* ---- SignatureVerifier.canonicalizeJson on arbitrary JSON values ----
\* A value is a literal (its JSON text), an array (items in order) or an
\* object (own members in insertion order, as JSON.parse creates them).
JLit(text) == [t |-> "lit", lit |-> text, items |-> <<>>]

JArr(vals) ==
    [t |-> "arr", lit |-> "",
     items |-> [i \in 1..Len(vals) |-> [key |-> "", val |-> vals[i]]]]

JObj(members) == [t |-> "obj", lit |-> "", items |-> members]

Member(k, v) == [key |-> k, val |-> v]

\* Object.keys(data): the own member names in insertion order
ObjectKeys(data) == [i \in 1..Len(data.items) |-> data.items[i].key]

\* data[key]
GetMember(data, key) ==
    (CHOOSE m \in {data.items[i] : i \in 1..Len(data.items)} :
        m.key = key).val

\* sorted[key] = value on an ordinary object: the name __proto__ reaches the
\* accessor inherited from Object.prototype, which creates no own member
SetMember(sorted, key, value) ==
    IF key = "__proto__"
    THEN sorted
    ELSE IF \E i \in 1..Len(sorted.items) : sorted.items[i].key = key
    THEN [sorted EXCEPT !.items =
            [i \in 1..Len(@) |-> IF @[i].key = key
                                 THEN Member(key, value) ELSE @[i]]]
    ELSE [sorted EXCEPT !.items = Append(@, Member(key, value))]

\* sortKeysRecursive(data) on a JSON value
RECURSIVE sortKeysRecursiveJson(_)
RECURSIVE sortedFrom(_, _, _)
sortedFrom(sorted, keys, data) ==
    IF keys = <<>>
    THEN sorted
    ELSE sortedFrom(SetMember(sorted, Head(keys),
                              sortKeysRecursiveJson(GetMember(data,
                                                              Head(keys)))),
                    Tail(keys), data)

sortKeysRecursiveJson(data) ==
    IF data.t = "arr"
    THEN [data EXCEPT !.items =
            [i \in 1..Len(@) |->
                Member("", sortKeysRecursiveJson(@[i].val))]]
    ELSE IF data.t = "obj"
    THEN sortedFrom(JObj(<<>>), SortedKeys(ObjectKeys(data)), data)
    ELSE data

\* the texts joined by commas
RECURSIVE JoinComma(_)
JoinComma(texts) ==
    IF texts = <<>> THEN ""
    ELSE IF Len(texts) = 1 THEN Head(texts)
    ELSE Head(texts) \o "," \o JoinComma(Tail(texts))

\* JSON.stringify(value): the text, own members in insertion order
RECURSIVE JSONstringifyJson(_)
JSONstringifyJson(value) ==
    IF value.t = "arr"
    THEN "[" \o JoinComma([i \in 1..Len(value.items) |->
                             JSONstringifyJson(value.items[i].val)]) \o "]"
    ELSE IF value.t = "obj"
    THEN "{" \o JoinComma([i \in 1..Len(value.items) |->
                             "\"" \o value.items[i].key \o "\":"
                             \o JSONstringifyJson(value.items[i].val)]) \o "}"
    ELSE value.lit

\* canonicalizeJson(data) on a JSON value
canonicalizeJsonText(data) == JSONstringifyJson(sortKeysRecursiveJson(data))

\* ---- inputs of canonicalizeJson ----
\* literals, objects and arrays of at most two members, and objects and
\* arrays that hold an object or an array of two members
JsonValues ==
    LET leaves == {JLit("1"), JLit("2")}
        keys == {"a", "z", "__proto__"}
        objects(ks) ==
            {JObj(<<>>)}
            \cup {JObj(<<Member(k, v)>>) : k \in ks, v \in leaves}
            \cup {JObj(<<Member(k[1], v[1]), Member(k[2], v[2])>>) :
                    k \in {kk \in ks \X ks : kk[1] # kk[2]},
                    v \in leaves \X leaves}
        arrays ==
            {JArr(<<>>)} \cup {JArr(<<v>>) : v \in leaves}
            \cup {JArr(<<v[1], v[2]>>) : v \in leaves \X leaves}
        inner ==
            {o \in objects({"a", "z"}) : Len(o.items) = 2}
            \cup {a \in arrays : Len(a.items) = 2}
    IN  leaves
        \cup objects(keys)
        \cup arrays
        \cup {JObj(<<Member("a", i), Member("z", l)>>) :
                i \in inner, l \in leaves}
        \cup {JObj(<<Member("z", l), Member("a", i)>>) :
                i \in inner, l \in leaves}
        \cup {JArr(<<i>>) : i \in inner}

\* ---- SignatureVerifier.verify ----
\* the characters of the base64 alphabet that occur in signatures
Base64Alphabet == {"A", "B"}

\* Buffer.from(signature, 'base64'): characters outside the alphabet are
\* passed over, and no string makes it throw
base64Decode(chars) == SelectSeq(chars, LAMBDA ch : ch \in Base64Alphabet)

\* the bytes that verifier.verify(publicKey, bytes) accepts for the data: the
\* signature of the key's owner over it
RsaSignature(data) == IF data = <<"x">> THEN <<"A", "B">> ELSE <<"B", "A">>

\* SignatureVerifier.verify(data, signature); Buffer.from throws a TypeError
\* for a number, which the catch turns into an Error
SignatureVerifierVerify(data, signature) ==
    IF ~keyTruthy(data)
    THEN Throw("Error")
    ELSE IF ~keyTruthy(signature)
    THEN Throw("Error")
    ELSE IF signature.type # "string"
    THEN Throw("Error")
    ELSE Return(base64Decode(signature.chars) = RsaSignature(data.chars))

\* arguments of verify: data and signature, each null, empty or a string; the
\* signature also a number, or a string with characters that are not base64
VerifyArgs ==
    LET texts == {<<>>, <<"A">>, <<"B">>, <<"A", "B">>, <<"B", "A">>,
                  <<"!">>, <<"!", "!">>, <<"A", " ", "B">>,
                  <<"A", "B", "\n">>, <<" ">>}
    IN  [data      : {NullKey, StringKey(<<>>), StringKey(<<"x">>),
                      StringKey(<<"y">>)},
         signature : {NullKey, NumberKey(<<"7">>)}
                     \cup {StringKey(c) : c \in texts}]

\* verifier.verify(data, signature)
Verify ==
    /\ probe.op = "verify"
    /\ probe.pc = "called"
    /\ probe' = [op |-> "verify", pc |-> "returned",
                 data |-> probe.data, signature |-> probe.signature,
                 out |-> SignatureVerifierVerify(probe.data, probe.signature)]
    /\ UNCHANGED <<now, config, store, cache, call, lastGet, setLog, req,
                   heap>>

\* a SignatureVerifier and the arguments of one call
InitCanon ==
    /\ now = 1
    /\ config = [cacheEnabled |-> FALSE, verifier |-> TRUE, cacheTtl |-> 1]
    /\ store = [k \in StoreKeys |-> None]
    /\ cache = [k \in CacheKeys |-> None]
    /\ call = [c \in Callers |-> IdleCall]
    /\ lastGet = NoGet
    /\ setLog = [k \in StoreKeys |-> None]
    /\ req = NoRequest
    /\ heap = NoHeap
    /\ \/ probe \in [op : {"canonicalize"}, pc : {"called"},
                     data1 : JsonValues, data2 : JsonValues]
       \/ \E a \in VerifyArgs :
             probe = [op |-> "verify", pc |-> "called", data |-> a.data,
                      signature |-> a.signature]

\* verifier.canonicalizeJson(data1); verifier.canonicalizeJson(data2)
Canonicalize ==
    /\ probe.op = "canonicalize"
    /\ probe.pc = "called"
    /\ probe' = [op |-> "canonicalize", pc |-> "returned",
                 data1 |-> probe.data1, data2 |-> probe.data2,
                 canonical1 |-> canonicalizeJsonText(probe.data1),
                 canonical2 |-> canonicalizeJsonText(probe.data2)]
    /\ UNCHANGED <<now, config, store, cache, call, lastGet, setLog, req,
                   heap>>

NextCanon == Canonicalize \/ Verify

SpecCanon == InitCanon /\ [][NextCanon]_vars

\* same keys and values at every nesting level, array items in the same order
RECURSIVE StructurallyEqual(_, _)
StructurallyEqual(v, w) ==
    /\ v.t = w.t
    /\ v.lit = w.lit
    /\ Len(v.items) = Len(w.items)
    /\ IF v.t = "obj"
       THEN /\ {v.items[i].key : i \in 1..Len(v.items)}
               = {w.items[i].key : i \in 1..Len(w.items)}
            /\ \A i \in 1..Len(v.items) :
                  StructurallyEqual(v.items[i].val,
                                    GetMember(w, v.items[i].key))
       ELSE \A i \in 1..Len(v.items) :
               StructurallyEqual(v.items[i].val, w.items[i].val)

\* C30: canonicalizeJson returns the same text for two values exactly when
\* they are structurally equal: the insertion order of keys does not matter,
\* and a difference in a key, a value or the order of an array shows in the
\* text
C30_CanonicalOrderIndependent ==
    probe.op = "canonicalize" /\ probe.pc = "returned"
    => ( StructurallyEqual(probe.data1, probe.data2)
         <=> probe.canonical1 = probe.canonical2 )

\* the half of C30 about key order alone
C30_SameForEqualValues ==
    ( /\ probe.op = "canonicalize" /\ probe.pc = "returned"
      /\ StructurallyEqual(probe.data1, probe.data2) )
    => probe.canonical1 = probe.canonical2

\* the other half of C30 for values without a member named __proto__
HasProto(v) == \E i \in 1..Len(v.items) : v.items[i].key = "__proto__"

C30_DistinctWithoutProto ==
    ( /\ probe.op = "canonicalize" /\ probe.pc = "returned"
      /\ ~HasProto(probe.data1) /\ ~HasProto(probe.data2)
      /\ ~StructurallyEqual(probe.data1, probe.data2) )
    => probe.canonical1 # probe.canonical2

\* two values in different key order, nested, with one text
C30_Reordered ==
    /\ probe.op = "canonicalize" /\ probe.pc = "returned"
    /\ probe.data1 # probe.data2
    /\ StructurallyEqual(probe.data1, probe.data2)
    /\ \E i \in 1..Len(probe.data1.items) :
          probe.data1.items[i].val.t = "obj"
    /\ probe.canonical1 = probe.canonical2

\* every character is of the base64 alphabet
ValidBase64(chars) == \A i \in 1..Len(chars) : chars[i] \in Base64Alphabet

\* data or signature is empty, or the signature is not valid base64
VerifyMustThrow(p) ==
    \/ ~keyTruthy(p.data)
    \/ ~keyTruthy(p.signature)
    \/ p.signature.type # "string"
    \/ ~ValidBase64(p.signature.chars)

\* C31: verify throws when data is empty, when signature is empty and when
\* signature is not valid base64; for every other input it returns a
\* boolean, false for a signature that is not the key's over the data
C31_VerifyThrowsOrBoolean ==
    probe.op = "verify" /\ probe.pc = "returned"
    => IF VerifyMustThrow(probe)
       THEN probe.out.kind = "throw"
       ELSE /\ probe.out.kind = "return"
            /\ probe.out.value[1] \in BOOLEAN
            /\ probe.signature.chars # RsaSignature(probe.data.chars)
               => probe.out.value[1] = FALSE

\* C31 without the part about base64: empty data and empty signature throw,
\* every non-empty pair of strings gets a boolean
C31_EmptyThrowsElseBoolean ==
    probe.op = "verify" /\ probe.pc = "returned"
    => IF ~keyTruthy(probe.data) \/ ~keyTruthy(probe.signature)
       THEN probe.out.kind = "throw"
       ELSE probe.signature.type = "string"
            => /\ probe.out.kind = "return"
               /\ probe.out.value[1] \in BOOLEAN

\* validateOfflineLicense has returned a result
OfflineReturned ==
    /\ req.op = "validateOfflineLicense"
    /\ req.pc = "done"
    /\ req.result.kind = "return"

\* the three checks of the call that req records, made on its arguments
OfflineChecks ==
    LET data    == req.input[1].data
        options == req.input[1].options
        key     == IF options.publicKey # None
                   THEN options.publicKey[1] ELSE config.publicKey[1]
        lic     == data.license[1]
    IN  [signature |-> data.signature[1] = <<key, stringifyOffline(data)>>,
         fresh     |-> lic.expires_at = None
                       \/ now - lic.expires_at[1] <= Day,
         hardware  |-> ( options.hardwareId # None /\ lic.hardware_id # None )
                       => options.hardwareId = lic.hardware_id]

\* C32: the result of validateOfflineLicense has valid true exactly when its
\* errors are empty, and that exactly when the signature over the data
\* without its signature verifies, the license has not been expired for more
\* than 24 hours, and the hardware id given equals that of the license when
\* both are there; each check that fails has its own error in the list,
\* whatever the other checks find
C32_OfflineValidIffNoErrors ==
    OfflineReturned
    => LET r == req.result.value[1]
           c == OfflineChecks
       IN  /\ r.valid <=> r.errors = {}
           /\ r.errors = {} <=> c.signature /\ c.fresh /\ c.hardware
           /\ "Signature verification failed" \in r.errors <=> ~c.signature
           /\ "License has expired" \in r.errors <=> ~c.fresh
           /\ "Hardware ID mismatch" \in r.errors <=> ~c.hardware

\* C32 witness: every check failed and the result lists the three errors
C32_Witness ==
    /\ OfflineReturned
    /\ ~req.result.value[1].valid
    /\ Cardinality(req.result.value[1].errors) = 3

\* a valid result: the three checks passed, the license past its expiry
\* date but within the tolerance
C32_WitnessValid ==
    /\ OfflineReturned
    /\ req.result.value[1].valid
    /\ req.input[1].data.license[1].expires_at[1] < now

\* ---- clearLicense, clearLicenseState, clearPattern ----
\* StateStore.getFeatureKey(licenseKey, feature)
getFeatureKey(licenseKey, feature) ==
    <<"entitlement", licenseKey, "feature", feature>>

\* text.split(':') for the names that occur in keys
Split(text) == IF text = "L1:x" THEN <<"L1", "x">> ELSE <<text>>

\* the template string of a key, as the parts between its colons
RECURSIVE KeyText(_)
KeyText(key) ==
    IF key = <<>> THEN <<>> ELSE Split(Head(key)) \o KeyText(Tail(key))

\* StateStore.clearLicense(licenseKey): getLicenseKeyPrefix gives
\* `entitlement:${licenseKey}:`, and key.startsWith(prefix) holds when the
\* parts of the key begin with those of the prefix and go on after its colon
clearLicense(st, licenseKey) ==
    LET prefix == KeyText(<<"entitlement", licenseKey>>)
        startsWith(key) ==
            /\ Len(KeyText(key)) > Len(prefix)
            /\ SubSeq(KeyText(key), 1, Len(prefix)) = prefix
    IN  [key \in DOMAIN st |-> IF startsWith(key) THEN None ELSE st[key]]

\* CacheManager.clearPattern(`license:${licenseKey}:*`): the pattern becomes
\* the regular expression ^license:<licenseKey>:.*$ with the license key
\* unescaped, so a dot in it stands for any character
clearPattern(ca, licenseKey) ==
    LET pattern == KeyText(<<"license", licenseKey>>)
        matches(p, part) ==
            IF p = "L." THEN part \in {"L1", "L2", "L."} ELSE p = part
        test(key) ==
            /\ Len(KeyText(key)) > Len(pattern)
            /\ \A i \in 1..Len(pattern) : matches(pattern[i], KeyText(key)[i])
    IN  [key \in DOMAIN ca |-> IF test(key) THEN None ELSE ca[key]]

\* license keys: two plain ones, one that continues another after a colon,
\* and one with a dot
ClearLicenses == {"L1", "L2", "L1:x", "L."}

NoClear == [op |-> "none", licenseKey |-> "", calls |-> 0]

\* a client whose StateStore and response cache are empty
InitClear ==
    /\ now = 1
    /\ config = [cacheEnabled |-> TRUE, verifier |-> TRUE, cacheTtl |-> 1]
    /\ store = [k \in {getValidationKey(l) : l \in ClearLicenses}
                      \cup {getFeatureKey(l, "f") : l \in ClearLicenses}
                  |-> None]
    /\ cache = [k \in {generateKey(l) : l \in ClearLicenses} |-> None]
    /\ call = [c \in Callers |-> IdleCall]
    /\ lastGet = NoGet
    /\ setLog = [k \in DOMAIN store |-> None]
    /\ probe = NoClear
    /\ req = NoRequest
    /\ heap = NoHeap

\* stateStore.set(key, state) for a validation or a feature of a license
StateSet(key) ==
    /\ store' = StateStoreSet(store, key,
                              SignedState(SetPayload("active", None), "good",
                                          now),
                              None, config.cacheTtl, now)
    /\ UNCHANGED <<now, config, cache, call, lastGet, setLog, probe, req,
                   heap>>

\* CacheManager.set(key, data) after a validation of the license
CacheSet(licenseKey) ==
    /\ cache' = CacheManagerSet(cache, generateKey(licenseKey),
                                Body("true", ActiveLicense, FALSE, "none",
                                     SortedOrder),
                                config.cacheEnabled, config.cacheTtl, now)
    /\ UNCHANGED <<now, config, store, call, lastGet, setLog, probe, req,
                   heap>>

\* stateStore.clearLicense(licenseKey); calls is the parity of the number of
\* clear calls made
ClearLicense(licenseKey) ==
    /\ store' = clearLicense(store, licenseKey)
    /\ probe' = [op |-> "clearLicense", licenseKey |-> licenseKey,
                 calls |-> 1 - probe.calls]
    /\ UNCHANGED <<now, config, cache, call, lastGet, setLog, req, heap>>

\* LicenseValidator.clearLicenseState(licenseKey)
ClearLicenseState(licenseKey) ==
    /\ store' = clearLicense(store, licenseKey)
    /\ cache' = clearPattern(cache, licenseKey)
    /\ probe' = [op |-> "clearLicenseState", licenseKey |-> licenseKey,
                 calls |-> 1 - probe.calls]
    /\ UNCHANGED <<now, config, call, lastGet, setLog, req, heap>>

NextClear ==
    \/ \E l \in ClearLicenses : StateSet(getValidationKey(l))
    \/ \E l \in ClearLicenses : StateSet(getFeatureKey(l, "f"))
    \/ \E l \in ClearLicenses : CacheSet(l)
    \/ \E l \in ClearLicenses : ClearLicense(l)
    \/ \E l \in ClearLicenses : ClearLicenseState(l)

SpecClear == InitClear /\ [][NextClear]_vars

\* the step is a call of clearLicense or clearLicenseState
ClearStep == probe' # probe /\ probe'.op \in {"clearLicense", "clearLicenseState"}

\* C33: clearLicense(L) removes every StateStore entry of L, validation and
\* feature keys alike, and leaves the entries of every other license key as
\* they were; clearLicenseState(L) also removes the response-cache entries
\* of L and those of no other license key
C33_ClearOnlyThatLicense ==
    [][ClearStep
       => /\ \A k \in DOMAIN store :
                store'[k] = IF k[2] = probe'.licenseKey THEN None ELSE store[k]
          /\ \A k \in DOMAIN cache :
                cache'[k] = IF /\ probe'.op = "clearLicenseState"
                               /\ k[2] = probe'.licenseKey
                            THEN None ELSE cache[k]]_vars

\* license keys made of letters, digits and dashes
PlainKey(l) == l \in {"L1", "L2"}

\* C33 among license keys without colons and dots
C33_ClearAmongPlainKeys ==
    [][ClearStep /\ PlainKey(probe'.licenseKey)
       => /\ \A k \in DOMAIN store :
                PlainKey(k[2])
                => store'[k] = IF k[2] = probe'.licenseKey
                               THEN None ELSE store[k]
          /\ \A k \in DOMAIN cache :
                PlainKey(k[2])
                => cache'[k] = IF /\ probe'.op = "clearLicenseState"
                                  /\ k[2] = probe'.licenseKey
                               THEN None ELSE cache[k]]_vars

\* C35: a get that returns a state returns the one that set stored under the
\* key: the same state value, capabilities, validity window and signature
\* as the entry holds
C35_CacheRoundTrip ==
    ( lastGet.key # None /\ lastGet.ret.kind = "return" )
    => LET s == lastGet.pre[1].state
           r == toObject(lastGet.ret.value[1])
       IN  /\ r.state = s.state
           /\ r.capabilities = s.capabilities
           /\ r.valid_from = s.valid_from
           /\ r.valid_until = s.valid_until
           /\ r.signature = s.signature

\* the parts of C35 that the read keeps: validity window and signature
C35_WindowAndSignatureKept ==
    ( lastGet.key # None /\ lastGet.ret.kind = "return" )
    => LET s == lastGet.pre[1].state
           r == toObject(lastGet.ret.value[1])
       IN  /\ r.valid_from = s.valid_from
           /\ r.valid_until = s.valid_until
           /\ r.signature = s.signature

\* a get that returned a state other than the one stored
C35_RevokedReadAsActive ==
    /\ lastGet.key # None
    /\ lastGet.ret.kind = "return"
    /\ lastGet.pre[1].state.state = STATE_INVALID
    /\ lastGet.ret.value[1].state = STATE_ACTIVE

\* ---- resolveLicenseState over stored states of a revoked license ----
NextServe ==
    \/ \E k \in StoreKeys, sk \in {"good", "foreign"} :
          StoreSet(k, SignedState(SetPayload("revoked", None), sk, now),
                   Some(MaxTime - 1))
    \/ \E c \in Callers, key \in LicenseKeys : BeginResolve(c, key)
    \/ \E c \in Callers, o \in NetOutcomes : NetworkRespond(c, o)
    \/ \E c \in Callers : ResumeCached(c)
    \/ \E c \in Callers : Finish(c)

SpecServe == Init /\ [][NextServe]_vars

\* resolveLicenseState returned the state that StateStore.get gave it
ServedFromStore(c) ==
    /\ call[c].pc = "done"
    /\ ~call[c].validated
    /\ call[c].result.kind = "return"

C34_ValidationEntriesNeverServed ==
    \A c \in Callers :
       ServedFromStore(c)
       => /\ setLog[getValidationKey(call[c].key)] # None
          /\ setLog[getValidationKey(call[c].key)][1].by = "set"

\* an entry with state INVALID written by resolveLicenseState after a
\* validation
C34_RevokedPersisted ==
    \E k \in StoreKeys :
       /\ store[k] # None
       /\ store[k][1].state.state = STATE_INVALID
       /\ setLog[k] # None
       /\ setLog[k][1].by = "network"

\* resolveFromValidation returned a state that allows operation, with a
\* verifier configured
ResolvedAllowing ==
    /\ probe.op = "resolve"
    /\ config.verifier
    /\ probe.out.kind = "return"
    /\ allowsOperation(probe.out.value[1])

\* C36: with a verifier configured, a state from resolveFromValidation that
\* allows operation comes from a response that carries a signature, and the
\* signature has been verified
C36_AllowingStatesAreVerified ==
    ResolvedAllowing
    => /\ probe.response.signature # None
       /\ verify(JSONstringify(WithoutSignature(probe.response)),
                 probe.response.signature)

\* C36 for the responses that carry a signature
C36_SignedAreVerified ==
    ( ResolvedAllowing /\ probe.response.signature # None )
    => verify(JSONstringify(WithoutSignature(probe.response)),
              probe.response.signature)

\* a signed and verified response resolved to a state that allows operation
C36_VerifiedAllowing ==
    /\ ResolvedAllowing
    /\ probe.response.signature # None

\* activateLicense or deactivateLicense returns in this step
ActivationSucceeds ==
    /\ req.pc # "done"
    /\ req'.pc = "done"
    /\ req'.op \in {"activateLicense", "deactivateLicense"}
    /\ req'.result.kind = "return"

\* C37: when activateLicense or deactivateLicense succeeds for a license key
\* the StateStore holds no entry for that key, so that no entitlement cached
\* before the call can be served after it
C37_ActivationClearsStates ==
    [][ActivationSucceeds
       => store'[getValidationKey(Join(req'.key.chars))] = None]_vars

\* the part of C37 that the code does: the response cache of the license is
\* empty after the call
C37_ActivationClearsResponses ==
    [][ActivationSucceeds
       => cache'[generateKey(Join(req'.key.chars))] = None]_vars

\* a response cached before the activation: the call that succeeded found
\* one and removed it
C37_ResponseWasCached ==
    /\ req.pc = "done"
    /\ req.op = "deactivateLicense"
    /\ req.result.kind = "return"
    /\ store[getValidationKey(Join(req.key.chars))] # None
    /\ cache[generateKey(Join(req.key.chars))] = None

\* how much a state permits: ACTIVE > GRACE > RESTRICTED > INVALID
Permits(state) ==
    CASE state = STATE_ACTIVE     -> 3
      [] state = STATE_GRACE      -> 2
      [] state = STATE_RESTRICTED -> 1
      [] state = STATE_INVALID    -> 0

\* a payload was classified at probe.at and its valid_from is unset or past
ClassifiedInWindow ==
    /\ probe.op = "construct"
    /\ ( probe.payload.valid_from = None
         \/ probe.payload.valid_from[1] <= probe.at )

\* C38: a payload whose valid_from is unset or past is never classified,
\* at a later time, as a state that permits more than the state it is
\* classified as now; INVALID stays INVALID and GRACE does not become ACTIVE
C38_TrustNeverGrowsWithTime ==
    ClassifiedInWindow
    => \A t \in EvalTimes :
          t > probe.at
          => Permits(determineState(probe.payload, t))
                <= Permits(probe.state.state)

\* C38 for the payloads that are not marked revalidation_failed
C38_WithoutRevalidationFailure ==
    ( ClassifiedInWindow /\ ~probe.payload.revalidation_failed )
    => \A t \in EvalTimes :
          t > probe.at
          => /\ Permits(determineState(probe.payload, t))
                   <= Permits(probe.state.state)
             /\ probe.state.state = STATE_INVALID
                => determineState(probe.payload, t) = STATE_INVALID

\* a payload classified ACTIVE that a later time classifies GRACE and a
\* still later one RESTRICTED
C38_Degrades ==
    /\ ClassifiedInWindow
    /\ ~probe.payload.revalidation_failed
    /\ probe.state.state = STATE_ACTIVE
    /\ \E t \in EvalTimes, u \in EvalTimes :
          /\ probe.at < t /\ t < u
          /\ determineState(probe.payload, t) = STATE_GRACE
          /\ determineState(probe.payload, u) = STATE_RESTRICTED

\* the validation of call c fails in this step with a network error, and
\* resolveLicenseState takes its fallback path to the end
NetworkFallback(c) ==
    /\ call[c].pc = "awaiting"
    /\ call'[c].pc = "done"
    /\ instanceOf(call'[c].net, "NetworkException")

\* getLicenseState, in this step, turns the failure of call c into a
\* synthesized state
RestrictedFallback(c) ==
    /\ call[c].pc = "done"
    /\ call'[c].pc = "returned"
    /\ call[c].result.kind = "throw"
    /\ call'[c].outer.kind = "return"

====
